---- MODULE Spec2Model ----
(***************************************************************************)
(* Diligence Cloud: the chunked retrieval index (SimpleVectorStore) and    *)
(* the multi-agent orchestration (OrchestratorAgent).                      *)
(*                                                                         *)
(* Conventions of the model                                                *)
(*   - a Python str is a tuple of one-character strings where its          *)
(*     characters matter (chunking), and a tuple of tokens where the code  *)
(*     splits it, lower-cases it and looks for substrings (questions,      *)
(*     answers, agent texts, file names);                                  *)
(*   - a similarity score is an integer number of hundredths               *)
(*     (0.95 is 95); the embedding vectors have integer norms, so every    *)
(*     cosine is exact in hundredths;                                      *)
(*   - Python's None is the string None for the arguments of the store.    *)
(***************************************************************************)
EXTENDS Integers, Sequences, FiniteSets, TLC

VARIABLES
    documents,   \* SimpleVectorStore.documents: doc_id -> [metadata, chunks]
    docOrder,    \* insertion order of the keys of SimpleVectorStore.documents
    ret,         \* the store call being answered: its name, arguments and outcome
    request_question, \* orchestrate: the question
    request_context,  \* orchestrate: the retrieved chunks
    pc,               \* orchestrate: the statement the calling thread is at
    question_type,    \* orchestrate: the category of the question
    agents_used,      \* orchestrate: the names of the agents that answered
    agent_outputs,    \* orchestrate: output key -> agent output
    futures,          \* orchestrate: the futures of the thread pool, in submit order
    collected,        \* orchestrate: number of futures whose result() was handled
    filtered_outputs, \* orchestrate: the outputs the relevance filter kept
    final_answer,     \* orchestrate: the answer text
    original_answer,  \* orchestrate: the answer text handed to attribution
    actual_sources,   \* orchestrate: the attributed sources
    verification,     \* orchestrate: the fact-check result
    response,         \* orchestrate: the dict returned to the caller
    provider,         \* what the provider did at each call site of the request
    attribution,      \* a direct call of _extract_actual_sources and its result
    chunking,         \* a call of _chunk_text: its arguments and its local variables
    cosine,           \* a call of _cosine_similarity: its arguments and its result
    qa_history        \* SimpleVectorStore.qa_history: project_id -> list of entries

storeVars == <<documents, docOrder, ret>>

orchVars ==
    <<request_question, request_context, pc, question_type, agents_used, agent_outputs, futures,
      collected, filtered_outputs, final_answer, original_answer, actual_sources,
      verification, response, provider>>

vars == <<storeVars, orchVars, attribution, chunking, cosine, qa_history>>

-----------------------------------------------------------------------------
(* Bounds of the model                                                     *)

\* total number of chunks the index may hold
MaxChunks == 3

\* largest top_k a caller passes (ask_question passes 5)
MaxTopK == 2

-----------------------------------------------------------------------------
(* Values                                                                  *)

None == "None"

DocIds == {"d1", "d2"}

ProjectIds == {"p1", "p2"}

\* a truthy Python value: neither None nor empty
Truthy(s) == s # None /\ s # ""

Max(a, b) == IF a >= b THEN a ELSE b

Min(a, b) == IF a <= b THEN a ELSE b

\* text[a:b] of Python, 0-based, clipped to the text
Slice(text, a, b) == SubSeq(text, a + 1, Min(b, Len(text)))

Whitespace == {" ", "\n"}

RECURSIVE LStrip(_)
LStrip(s) == IF s # <<>> /\ Head(s) \in Whitespace THEN LStrip(Tail(s)) ELSE s

RECURSIVE RStrip(_)
RStrip(s) ==
    IF s # <<>> /\ s[Len(s)] \in Whitespace THEN RStrip(SubSeq(s, 1, Len(s) - 1)) ELSE s

\* str.strip()
Strip(s) == RStrip(LStrip(s))

\* text.rfind(ch, a, b): the highest 0-based index in [a, b) holding ch, else -1
RFind(text, ch, a, b) ==
    LET hits == {i \in a .. (Min(b, Len(text)) - 1) : text[i + 1] = ch}
    IN  IF hits = {} THEN -1 ELSE CHOOSE i \in hits : \A j \in hits : j <= i

-----------------------------------------------------------------------------
(* Chunking                                                                *)

\* CHUNK_SIZE and CHUNK_OVERLAP of the environment, scaled to the model's texts
chunk_size == 4

chunk_overlap == 1

\* the look-back window of the sentence search ("end - 100"), scaled alike
LookBack == 2

RECURSIVE ChunkLoop(_, _, _, _, _)
ChunkLoop(text, size, overlap, start, chunks) ==
    IF ~(start < Len(text)) THEN chunks
    ELSE
        LET end0 == start + size
            search_start == Max(start, end0 - LookBack)
            last_period == RFind(text, ".", search_start, end0)
            last_newline == RFind(text, "\n", search_start, end0)
            break_point == Max(last_period, last_newline)
            end == IF end0 < Len(text) /\ break_point > start
                   THEN break_point + 1 ELSE end0
            chunk == Strip(Slice(text, start, end))
            chunks2 == IF chunk # <<>> THEN Append(chunks, chunk) ELSE chunks
            next == IF end < Len(text) THEN end - overlap ELSE Len(text)
        IN  ChunkLoop(text, size, overlap, next, chunks2)

_chunk_text(text, size, overlap) ==
    IF text = <<>> THEN <<>> ELSE ChunkLoop(text, size, overlap, 0, <<>>)

\* the texts uploaded in the model: no chunk, no chunk after stripping,
\* one chunk, two overlapping chunks split after the sentence terminator
Texts ==
    { <<>>,
      <<" ">>,
      <<"a", "b">>,
      <<"a", "b", ".", "c", "d">> }

-----------------------------------------------------------------------------
(* One call of _chunk_text, an iteration of its loop at a time             *)

NoChunking == [op |-> "idle"]

\* longest text, largest chunk_size and most loop iterations of a call
MaxTextLen == 5

MaxChunkSize == 4

MaxIterations == 7

\* a letter, the two characters the loop looks for
ChunkAlphabet == {"a", ".", "\n"}

ChunkTexts == UNION {[1 .. n -> ChunkAlphabet] : n \in 0 .. MaxTextLen}

\* the end of the window that starts at start: start + chunk_size, or just
\* after the last "." or newline found in the look-back window
WindowEnd(text, size, start) ==
    LET end0 == start + size
        search_start == Max(start, end0 - LookBack)
        last_period == RFind(text, ".", search_start, end0)
        last_newline == RFind(text, "\n", search_start, end0)
        break_point == Max(last_period, last_newline)
    IN  IF end0 < Len(text) /\ break_point > start THEN break_point + 1 ELSE end0

\* "if not text: return []", else the loop is entered with start = 0
CallChunkText(text, size, overlap) ==
    /\ chunking = NoChunking
    /\ chunking' = [op |-> "_chunk_text", text |-> text, chunk_size |-> size,
                    overlap |-> overlap, start |-> 0, chunks |-> <<>>,
                    iterations |-> 0,
                    pc |-> IF text = <<>> THEN "return" ELSE "while"]
    /\ UNCHANGED <<storeVars, orchVars, attribution, cosine, qa_history>>

\* one pass through the body of "while start < text_length"
IterateChunk ==
    /\ chunking.op = "_chunk_text"
    /\ chunking.pc = "while"
    /\ chunking.start < Len(chunking.text)
    /\ chunking.iterations < MaxIterations
    /\ LET text == chunking.text
           end == WindowEnd(text, chunking.chunk_size, chunking.start)
           chunk == Strip(Slice(text, chunking.start, end))
       IN  chunking' =
               [chunking EXCEPT
                   !.chunks = IF chunk # <<>> THEN Append(@, chunk) ELSE @,
                   !.start = IF end < Len(text) THEN end - chunking.overlap
                             ELSE Len(text),
                   !.iterations = @ + 1]
    /\ UNCHANGED <<storeVars, orchVars, attribution, cosine, qa_history>>

\* the loop condition fails
LeaveChunkLoop ==
    /\ chunking.op = "_chunk_text"
    /\ chunking.pc = "while"
    /\ ~(chunking.start < Len(chunking.text))
    /\ chunking' = [chunking EXCEPT !.pc = "return"]
    /\ UNCHANGED <<storeVars, orchVars, attribution, cosine, qa_history>>

\* return chunks
ReturnChunks ==
    /\ chunking.op = "_chunk_text"
    /\ chunking.pc = "return"
    /\ chunking' = NoChunking
    /\ UNCHANGED <<storeVars, orchVars, attribution, cosine, qa_history>>

-----------------------------------------------------------------------------
(* Embeddings and similarity                                               *)

\* the fallback vector of _get_embedding ([0.0] * 1536), in the model's dimension
ZeroVector == <<0, 0>>

\* the embedding provider: a function of the text, here of the chunk texts of
\* the model
Embed(text) ==
    IF text = <<"a", "b", ".">> THEN <<3, 4>> ELSE <<1, 0>>

\* _get_embedding: the provider's vector, or the zero vector when the call fails
_get_embedding(text, providerOk) == IF providerOk THEN Embed(text) ELSE ZeroVector

Dot(a, b) == a[1] * b[1] + a[2] * b[2]

\* the integer part of the square root
Isqrt(n) == CHOOSE r \in 0 .. n : r * r <= n /\ n < (r + 1) * (r + 1)

\* numpy.linalg.norm, to its integer part: 0 exactly for the zero vector
Norm(a) == Isqrt(Dot(a, a))

\* dot / (norm_a * norm_b) in hundredths, cut towards 0; when both norms are
\* integers the division is made with them, otherwise the square of the
\* quotient is taken first
Quotient(a, b, norm_a, norm_b) ==
    LET dot == Dot(a, b)
        magnitude == IF norm_a * norm_a = Dot(a, a) /\ norm_b * norm_b = Dot(b, b)
                         THEN (100 * (IF dot < 0 THEN 0 - dot ELSE dot))
                                  \div (norm_a * norm_b)
                         ELSE Isqrt((10000 * dot * dot) \div (Dot(a, a) * Dot(b, b)))
    IN  IF dot < 0 THEN 0 - magnitude ELSE magnitude

\* a result that is returned as the division gave it
Unclamped(similarity) == similarity

\* max(-1.0, min(1.0, similarity))
Clamp(similarity) == Max(-100, Min(100, similarity))

_cosine_similarity(a, b) ==
    LET norm_a == Norm(a)
        norm_b == Norm(b)
    IN  IF norm_a = 0 \/ norm_b = 0 THEN 0
        ELSE LET similarity == Quotient(a, b, norm_a, norm_b)
             IN  Clamp(similarity)

-----------------------------------------------------------------------------
(* One call of _cosine_similarity on any two vectors                       *)

NoCosine == [op |-> "idle"]

\* largest absolute value of a vector component
MaxCoordinate == 2

Vectors == [1 .. 2 -> -MaxCoordinate .. MaxCoordinate]

\* the floating-point division gives the quotient to within one unit of the
\* last place, here one hundredth: it may come out above 1.0 for parallel
\* vectors
FloatQuotients(a, b) ==
    LET similarity == Quotient(a, b, Norm(a), Norm(b))
    IN  {similarity - 1, similarity, similarity + 1}

CallCosine(a, b) ==
    /\ cosine = NoCosine
    /\ IF Norm(a) = 0 \/ Norm(b) = 0
       THEN cosine' = [op |-> "_cosine_similarity", a |-> a, b |-> b,
                       similarity |-> 0, value |-> 0]
       ELSE \E similarity \in FloatQuotients(a, b) :
               cosine' = [op |-> "_cosine_similarity", a |-> a, b |-> b,
                          similarity |-> similarity, value |-> Clamp(similarity)]
    /\ UNCHANGED <<storeVars, orchVars, attribution, chunking, qa_history>>

ReturnCosine ==
    /\ cosine # NoCosine
    /\ cosine' = NoCosine
    /\ UNCHANGED <<storeVars, orchVars, attribution, chunking, qa_history>>

\* no Q&A entry has been saved
NoHistory == [p \in {} |-> <<>>]

-----------------------------------------------------------------------------
(* The Q&A history                                                         *)
(*                                                                         *)
(* qa_history maps a project to the list of its entries; of an entry the   *)
(* model keeps the id and the row number. A call leaves its result in ret: *)
(* whether it raised, and the value it returned.                           *)

\* total number of Q&A entries the history may hold
MaxQa == 3

\* the ids uuid4 may draw
QaIds == {"q1", "q2", "q3", "q4"}

list_qa(project_id) ==
    IF project_id \in DOMAIN qa_history THEN qa_history[project_id] ELSE <<>>

\* the entry is appended, then the history is written; saved is whether the
\* write succeeded
save_qa(qa_id, project_id, row_number, saved) ==
    /\ qa_history' =
           [p \in DOMAIN qa_history \cup {project_id} |->
               IF p = project_id
                   THEN Append(list_qa(project_id),
                               [id |-> qa_id, row_number |-> row_number])
                   ELSE qa_history[p]]
    /\ ret' = [op |-> "save_qa", project_id |-> project_id, qa_id |-> qa_id,
               raised |-> ~saved, value |-> FALSE]

\* the end of ask_question: the answer is saved with the next row number if
\* the request names a project (project_id is "" if it names none); qa_id is
\* the uuid4 drawn for it, an id that no entry of the history holds
SaveAnswer(project_id, qa_id, saved) ==
    /\ LET RECURSIVE Sum(_)
           Sum(S) == IF S = {} THEN 0
                     ELSE LET p == CHOOSE x \in S : TRUE
                          IN  Len(qa_history[p]) + Sum(S \ {p})
       IN  Sum(DOMAIN qa_history) < MaxQa
    /\ \A p \in DOMAIN qa_history :
           \A i \in 1 .. Len(qa_history[p]) : qa_history[p][i].id # qa_id
    /\ IF project_id # ""
           THEN LET existing_qa == list_qa(project_id)
                    row_number == Len(existing_qa) + 1
                IN  save_qa(qa_id, project_id, row_number, saved)
           ELSE /\ qa_history' = qa_history
                /\ ret' = [op |-> "ask_question", project_id |-> project_id,
                           qa_id |-> None, raised |-> FALSE, value |-> FALSE]
    /\ UNCHANGED <<documents, docOrder, orchVars, attribution, chunking, cosine>>

\* a deletion that leaves the row numbers of the remaining entries alone
delete_qa_unnumbered(qa_id, project_id, saved) ==
    /\ IF project_id \notin DOMAIN qa_history
           THEN /\ qa_history' = qa_history
                /\ ret' = [op |-> "delete_qa", project_id |-> project_id, qa_id |-> qa_id,
                           raised |-> FALSE, value |-> FALSE]
           ELSE LET qa_list == qa_history[project_id]
                    original_length == Len(qa_list)
                    remaining == SelectSeq(qa_list, LAMBDA qa : qa.id # qa_id)
                IN  IF Len(remaining) < original_length
                        THEN /\ qa_history' = [qa_history EXCEPT ![project_id] = remaining]
                             /\ ret' = [op |-> "delete_qa", project_id |-> project_id,
                                        qa_id |-> qa_id, raised |-> ~saved, value |-> saved]
                        ELSE /\ qa_history' = [qa_history EXCEPT ![project_id] = remaining]
                             /\ ret' = [op |-> "delete_qa", project_id |-> project_id,
                                        qa_id |-> qa_id, raised |-> FALSE, value |-> FALSE]
    /\ UNCHANGED <<documents, docOrder, orchVars, attribution, chunking, cosine>>

\* SimpleVectorStore.delete_qa; when an entry was removed the rest is
\* renumbered and the history is written
delete_qa(qa_id, project_id, saved) ==
    /\ IF project_id \notin DOMAIN qa_history
           THEN /\ qa_history' = qa_history
                /\ ret' = [op |-> "delete_qa", project_id |-> project_id, qa_id |-> qa_id,
                           raised |-> FALSE, value |-> FALSE]
           ELSE LET qa_list == qa_history[project_id]
                    original_length == Len(qa_list)
                    remaining == SelectSeq(qa_list, LAMBDA qa : qa.id # qa_id)
                IN  IF Len(remaining) < original_length
                        THEN /\ qa_history' =
                                    [qa_history EXCEPT ![project_id] =
                                        [i \in 1 .. Len(remaining) |->
                                            [remaining[i] EXCEPT !.row_number = i]]]
                             /\ ret' = [op |-> "delete_qa", project_id |-> project_id,
                                        qa_id |-> qa_id, raised |-> ~saved, value |-> saved]
                        ELSE /\ qa_history' = [qa_history EXCEPT ![project_id] = remaining]
                             /\ ret' = [op |-> "delete_qa", project_id |-> project_id,
                                        qa_id |-> qa_id, raised |-> FALSE, value |-> FALSE]
    /\ UNCHANGED <<documents, docOrder, orchVars, attribution, chunking, cosine>>

\* SimpleVectorStore.delete_project_qa
delete_project_qa(project_id, saved) ==
    /\ IF project_id \in DOMAIN qa_history
           THEN /\ qa_history' = [p \in DOMAIN qa_history \ {project_id} |-> qa_history[p]]
                /\ ret' = [op |-> "delete_project_qa", project_id |-> project_id,
                           qa_id |-> None, raised |-> ~saved, value |-> saved]
           ELSE /\ qa_history' = qa_history
                /\ ret' = [op |-> "delete_project_qa", project_id |-> project_id,
                           qa_id |-> None, raised |-> FALSE, value |-> FALSE]
    /\ UNCHANGED <<documents, docOrder, orchVars, attribution, chunking, cosine>>

-----------------------------------------------------------------------------
(* The index                                                               *)

\* The request handlers are coroutines that call the store without awaiting in
\* between, so one store call is answered before the next begins
Idle == [op |-> "idle"]

TotalChunks(docs, order) ==
    LET RECURSIVE Sum(_)
        Sum(i) == IF i = 0 THEN 0 ELSE Len(docs[order[i]].chunks) + Sum(i - 1)
    IN  Sum(Len(order))

\* _save_documents: the whole index is written to a temporary file that
\* replaces documents.json; a failure raises. What the caller sees of it is
\* whether the call raised
SaveOutcomes == BOOLEAN

\* an ingestion that leaves out the chunks whose embedding call failed
NewChunksEmbeddedOnly(chunks, providerOk) ==
    LET RECURSIVE Kept(_)
        Kept(i) ==
            IF i > Len(chunks) THEN <<>>
            ELSE (IF providerOk[i]
                  THEN <<[index |-> i - 1, text |-> chunks[i],
                          embedding |-> Embed(chunks[i])]>>
                  ELSE <<>>) \o Kept(i + 1)
    IN  Kept(1)

\* the chunk records add_document appends for a text, given the outcome of
\* the embedding call of each chunk
NewChunks(chunks, providerOk) ==
    [i \in 1 .. Len(chunks) |->
        [index |-> i - 1,
         text |-> chunks[i],
         embedding |-> _get_embedding(chunks[i], providerOk[i])]]

add_document(doc_id, text, project_id, saveOk) ==
    LET chunks == _chunk_text(text, chunk_size, chunk_overlap)
        entry == IF doc_id \in DOMAIN documents THEN documents[doc_id]
                 ELSE [metadata |-> [project_id |-> project_id], chunks |-> <<>>]
    IN  /\ ret = Idle
        /\ TotalChunks(documents, docOrder) + Len(chunks) <= MaxChunks
        /\ \E providerOk \in [1 .. Len(chunks) -> BOOLEAN] :
              documents' =
                  [d \in DOMAIN documents \cup {doc_id} |->
                      IF d = doc_id
                      THEN [entry EXCEPT !.chunks = @ \o NewChunks(chunks, providerOk)]
                      ELSE documents[d]]
        /\ docOrder' = IF doc_id \in DOMAIN documents THEN docOrder
                       ELSE Append(docOrder, doc_id)
        /\ ret' = [op |-> "add_document", doc_id |-> doc_id,
                   value |-> IF saveOk THEN None ELSE "raise"]
        /\ UNCHANGED <<orchVars, attribution, chunking, cosine, qa_history>>

\* the sequence without the entries equal to x
RECURSIVE Without(_, _)
Without(s, x) ==
    IF s = <<>> THEN <<>>
    ELSE IF Head(s) = x THEN Without(Tail(s), x)
    ELSE <<Head(s)>> \o Without(Tail(s), x)

\* a deletion that drops the chunks one call at a time before the document
delete_document_stepwise(doc_id, saveOk) ==
    /\ ret = Idle
    /\ IF doc_id \in DOMAIN documents
       THEN /\ documents' =
                  IF documents[doc_id].chunks # <<>>
                  THEN [documents EXCEPT ![doc_id].chunks = Tail(@)]
                  ELSE [d \in DOMAIN documents \ {doc_id} |-> documents[d]]
            /\ docOrder' =
                  IF documents[doc_id].chunks # <<>>
                  THEN docOrder ELSE Without(docOrder, doc_id)
            /\ ret' = [op |-> "delete_document", doc_id |-> doc_id,
                       value |-> IF saveOk THEN "True" ELSE "raise"]
       ELSE /\ UNCHANGED <<documents, docOrder>>
            /\ ret' = [op |-> "delete_document", doc_id |-> doc_id, value |-> "False"]
    /\ UNCHANGED <<orchVars, attribution, chunking, cosine, qa_history>>

delete_document(doc_id, saveOk) ==
    /\ ret = Idle
    /\ IF doc_id \in DOMAIN documents
       THEN /\ documents' = [d \in DOMAIN documents \ {doc_id} |-> documents[d]]
            /\ docOrder' = Without(docOrder, doc_id)
            /\ ret' = [op |-> "delete_document", doc_id |-> doc_id,
                       value |-> IF saveOk THEN "True" ELSE "raise"]
       ELSE /\ UNCHANGED <<documents, docOrder>>
            /\ ret' = [op |-> "delete_document", doc_id |-> doc_id, value |-> "False"]
    /\ UNCHANGED <<orchVars, attribution, chunking, cosine, qa_history>>

-----------------------------------------------------------------------------
(* Search                                                                  *)

\* an Optional[List[str]] argument: None, or a list (here: the set of its items)
NoList == [given |-> FALSE, ids |-> {}]

SomeList(ids) == [given |-> TRUE, ids |-> ids]

\* truthiness of an Optional[List[str]]: given and not empty
TruthyList(l) == l.given /\ l.ids # {}

\* a filter that leaves a document out only when both tests fail it
SkipsWhenBoth(doc_id, doc_data, document_ids, project_id) ==
    /\ (Truthy(project_id) /\ doc_data.metadata.project_id # project_id)
    /\ (TruthyList(document_ids) /\ doc_id \notin document_ids.ids)

\* whether search leaves a document out: the two tests of the loop body
Skips(doc_id, doc_data, document_ids, project_id) ==
    \/ (Truthy(project_id) /\ doc_data.metadata.project_id # project_id)
    \/ (TruthyList(document_ids) /\ doc_id \notin document_ids.ids)

\* the loop over self.documents.items(): one result per chunk of every document
\* the two filters let through, in document insertion order, then chunk order
RECURSIVE CollectResults(_, _, _, _, _, _)
CollectResults(docs, order, i, query_embedding, document_ids, project_id) ==
    IF i > Len(order) THEN <<>>
    ELSE
        LET doc_id == order[i]
            doc_data == docs[doc_id]
            skip == Skips(doc_id, doc_data, document_ids, project_id)
            found == [c \in 1 .. Len(doc_data.chunks) |->
                        [text |-> doc_data.chunks[c].text,
                         metadata |-> [project_id |-> doc_data.metadata.project_id,
                                       doc_id |-> doc_id,
                                       chunk_index |-> doc_data.chunks[c].index],
                         score |-> _cosine_similarity(query_embedding,
                                                      doc_data.chunks[c].embedding),
                         rank |-> 0]]
        IN  (IF skip THEN <<>> ELSE found)
            \o CollectResults(docs, order, i + 1, query_embedding, document_ids, project_id)

RECURSIVE InsertByScore(_, _)

\* an insertion that lets an entry overtake the entries that score as much
InsertByScoreUnstable(sorted, x) ==
    IF sorted = <<>> THEN <<x>>
    ELSE IF Head(sorted).score > x.score
         THEN <<Head(sorted)>> \o InsertByScore(Tail(sorted), x)
         ELSE <<x>> \o sorted

\* x put into a list sorted by descending score, behind the entries that score
\* as much: an entry never overtakes an equal one
InsertByScore(sorted, x) ==
    IF sorted = <<>> THEN <<x>>
    ELSE IF Head(sorted).score >= x.score
         THEN <<Head(sorted)>> \o InsertByScore(Tail(sorted), x)
         ELSE <<x>> \o sorted

\* results.sort(key=lambda x: x['score'], reverse=True): a stable sort
RECURSIVE SortByScore(_)
SortByScore(results) ==
    IF results = <<>> THEN <<>>
    ELSE InsertByScore(SortByScore(SubSeq(results, 1, Len(results) - 1)),
                       results[Len(results)])

\* results[:top_k] with rank i + 1 on the i-th entry
RankTop(results, top_k) ==
    [i \in 1 .. Min(top_k, Len(results)) |-> [results[i] EXCEPT !.rank = i]]

SearchResults(docs, order, query_embedding, document_ids, top_k, project_id) ==
    RankTop(SortByScore(CollectResults(docs, order, 1, query_embedding,
                                       document_ids, project_id)),
            top_k)

\* the query texts of the model
Queries == { <<"a", "b">>, <<"a", "b", ".">> }

ListArguments == {NoList} \cup {SomeList(ids) : ids \in SUBSET DocIds}

ProjectArguments == {None} \cup ProjectIds

search(query, document_ids, top_k, project_id, providerOk) ==
    LET query_embedding == _get_embedding(query, providerOk)
    IN  /\ ret = Idle
        /\ ret' = [op |-> "search",
                   query_embedding |-> query_embedding,
                   document_ids |-> document_ids,
                   top_k |-> top_k,
                   project_id |-> project_id,
                   value |-> SearchResults(documents, docOrder, query_embedding,
                                           document_ids, top_k, project_id)]
        /\ UNCHANGED <<documents, docOrder, orchVars, attribution, chunking, cosine, qa_history>>

GetDocument(docs, doc_id) ==
    IF doc_id \in DOMAIN docs THEN docs[doc_id].metadata ELSE None

get_document(doc_id) ==
    /\ ret = Idle
    /\ ret' = [op |-> "get_document", doc_id |-> doc_id,
               value |-> GetDocument(documents, doc_id)]
    /\ UNCHANGED <<documents, docOrder, orchVars, attribution, chunking, cosine, qa_history>>

\* the metadata of the documents the project filter lets through, each with its
\* id, newest upload first. The upload dates are the times of the uploads, so
\* they grow along the insertion order, and the stable sort by descending
\* upload_date gives the reverse of the insertion order
RECURSIVE ListDocuments(_, _, _)
ListDocuments(docs, order, project_id) ==
    IF order = <<>> THEN <<>>
    ELSE
        LET doc_id == order[Len(order)]
            skip == Truthy(project_id) /\ docs[doc_id].metadata.project_id # project_id
            rest == ListDocuments(docs, SubSeq(order, 1, Len(order) - 1), project_id)
        IN  (IF skip THEN <<>>
             ELSE <<[project_id |-> docs[doc_id].metadata.project_id, id |-> doc_id]>>)
            \o rest

list_documents(project_id) ==
    /\ ret = Idle
    /\ ret' = [op |-> "list_documents", project_id |-> project_id,
               value |-> ListDocuments(documents, docOrder, project_id)]
    /\ UNCHANGED <<documents, docOrder, orchVars, attribution, chunking, cosine, qa_history>>

Respond ==
    /\ ret # Idle
    /\ ret' = Idle
    /\ UNCHANGED <<documents, docOrder, orchVars, attribution, chunking, cosine, qa_history>>

-----------------------------------------------------------------------------
(* Strings of the orchestration                                            *)
(*                                                                         *)
(* A str is a sequence of tokens (words, file names, display names). The   *)
(* tables below give, for the tokens of the model, what the code computes  *)
(* on their characters: lower(), the substrings the code looks for,        *)
(* rsplit('.', 1)[0] and split('_').                                       *)

\* an Optional[str]: None, or a str
NoneStr == [none |-> TRUE, words |-> <<>>]

Str(words) == [none |-> FALSE, words |-> words]

\* "not s" of Python for an Optional[str]
Falsy(s) == s.none \/ s.words = <<>>

\* str.lower() of a token
Lower(t) ==
    CASE t = "What" -> "what"
      [] t = "EBITDA" -> "ebitda"
      [] t = "Explain" -> "explain"
      [] t = "Show" -> "show"
      [] t = "Summarize" -> "summarize"
      [] t = "Acme" -> "acme"
      [] t = "Beta" -> "beta"
      [] t = "Describe" -> "describe"
      [] t = "EBITDA Analysis" -> "ebitda analysis"
      [] t = "Key Employee Bios" -> "key employee bios"
      [] t = "Analysis" -> "analysis"
      [] t = "Key" -> "key"
      [] t = "Employee" -> "employee"
      [] t = "Bios" -> "bios"
      [] t = "Source:" -> "source:"
      [] t = "[Source:" -> "[source:"
      [] t = "Error" -> "error"
      [] t = "Incorrect" -> "incorrect"
      [] t = "API" -> "api"
      [] t = "DocumentAgent" -> "documentagent"
      [] t = "AnalysisAgent" -> "analysisagent"
      [] t = "DataExtractionAgent" -> "dataextractionagent"
      [] t = "FactCheckAgent" -> "factcheckagent"
      [] OTHER -> t

LowerAll(words) == [i \in 1 .. Len(words) |-> Lower(words[i])]

\* the strings, among those the code looks for, that occur inside a lower-case
\* token, the token itself included
SubOf(t) ==
    {t} \cup
    CASE t = "show" -> {"how"}
      [] t = "margin?" -> {"margin"}
      [] t = "ebitda_report.pdf" -> {"ebitda_report", "ebitda", "report"}
      [] t = "ebitda_report" -> {"ebitda", "report"}
      [] t = "employee_bios.txt" -> {"employee_bios", "employee", "bios"}
      [] t = "employee_bios" -> {"employee", "bios"}
      [] t = "margin_notes.txt" -> {"margin_notes", "margin", "notes", "notes.txt"}
      [] t = "margin_notes" -> {"margin", "notes"}
      [] t = "notes.txt" -> {"notes"}
      [] t = "notes.txt]" -> {"notes.txt", "notes"}
      [] t = "inaccurate" -> {"accurate"}
      [] t = "incorrect" -> {"correct"}
      [] t = "22%" -> {"22"}
      [] OTHER -> {}

\* s.split() of a lower-case needle
Words(t) ==
    CASE t = "ebitda analysis" -> <<"ebitda", "analysis">>
      [] t = "key employee bios" -> <<"key", "employee", "bios">>
      [] t = "some issues" -> <<"some", "issues">>
      [] OTHER -> <<t>>

\* phrase in text: the words of the phrase in a row
InPhrase(phrase, words) ==
    \E i \in 1 .. Len(words) :
        /\ i + Len(phrase) - 1 <= Len(words)
        /\ \A j \in 1 .. Len(phrase) : phrase[j] \in SubOf(words[i + j - 1])

\* needle in text, for a lower-case text; the empty str is in every str
In(needle, words) == needle = "" \/ InPhrase(Words(needle), words)

\* s.rsplit('.', 1)[0] of a lower-case token
Base(t) ==
    CASE t = "ebitda_report.pdf" -> "ebitda_report"
      [] t = "employee_bios.txt" -> "employee_bios"
      [] t = "margin_notes.txt" -> "margin_notes"
      [] t = "notes.txt" -> "notes"
      [] OTHER -> t

\* s.split('_') of a lower-case token without extension
Parts(t) ==
    CASE t = "ebitda_report" -> <<"ebitda", "report">>
      [] t = "employee_bios" -> <<"employee", "bios">>
      [] t = "margin_notes" -> <<"margin", "notes">>
      [] OTHER -> <<t>>

\* len(t) > n for the tokens a length test is made on
LongerThan(t, n) ==
    CASE t \in {"", "a", "b", "1", "2", "3"} -> 1 > n
      [] t \in {"is", "me", "of", "22", "vs"} -> 2 > n
      [] t \in {"the", "two", "how", "why", "did", "22%", "per", "see"} -> 3 > n
      [] t \in {"what", "show", "acme", "beta", "bios", "both"} -> 4 > n
      [] OTHER -> TRUE

-----------------------------------------------------------------------------
(* Document names                                                          *)

\* DocumentAgent.normalize_document_name
normalize_document_name(filename) ==
    LET filename_lower == Lower(filename)
        has(k) == In(k, <<filename_lower>>)
    IN  IF has("ebitda") \/ has("profitability") \/ has("margin")
            THEN "EBITDA Analysis"
        ELSE IF has("financial") /\ (has("statement") \/ has("report"))
            THEN "Annual Financial Statements"
        ELSE IF has("cash") /\ (has("flow") \/ has("analysis"))
            THEN "Cash Flow Analysis"
        ELSE IF has("revenue") \/ has("sales")
            THEN "Revenue Projections"
        ELSE IF has("litigation") \/ has("lawsuit")
            THEN "Pending Litigation Summary"
        ELSE IF has("intellectual") \/ has("property") \/ has("ip")
            THEN "Intellectual Property Portfolio"
        ELSE IF has("employment") \/ (has("contract") /\ has("employee"))
            THEN "Employment Contracts"
        ELSE IF has("customer") /\ has("contract")
            THEN "Customer Contracts (Top 10)"
        ELSE IF has("compliance") \/ has("regulatory")
            THEN "Regulatory Compliance Report"
        ELSE IF has("customer") /\ (has("acquisition") \/ has("cac"))
            THEN "Customer Acquisition Analysis"
        ELSE IF has("market") /\ has("analysis")
            THEN "Market Analysis Report"
        ELSE IF has("competitive") \/ has("landscape")
            THEN "Competitive Landscape"
        ELSE IF has("it") /\ has("infrastructure")
            THEN "IT Infrastructure Overview"
        ELSE IF has("employee") \/ has("bios")
            THEN "Key Employee Bios"
        ELSE IF has("organizational") \/ has("org")
            THEN "Organizational Chart"
        ELSE IF has("product") /\ has("roadmap")
            THEN "Product Roadmap"
        ELSE filename

-----------------------------------------------------------------------------
(* The question classifier                                                 *)

\* any(word in q_lower for word in keywords): the one-word keywords and the
\* keywords of several words
\* any(...) that sees the one-word keywords only
AnyInWords(keywords, phrases, q_lower) == \E k \in keywords : In(k, q_lower)

\* any(word in q_lower for word in keywords)
AnyIn(keywords, phrases, q_lower) ==
    \/ \E k \in keywords : In(k, q_lower)
    \/ \E p \in phrases : InPhrase(p, q_lower)

\* the classifier with the financial keywords tested before the data keywords
_classify_question_financial_first(question) ==
    LET q_lower == LowerAll(question)
    IN  IF AnyIn({"financial", "earnings", "ebitda", "margin", "valuation"},
                 {<<"balance", "sheet">>}, q_lower)
            THEN "financial"
        ELSE IF AnyIn({"calculate", "total", "revenue", "profit", "percentage"},
                      {<<"how", "many">>, <<"how", "much">>, <<"what", "is", "the">>,
                       <<"growth", "rate">>}, q_lower)
            THEN "data"
        ELSE IF AnyIn({"analyze", "compare", "difference", "contrast", "why", "how",
                       "impact", "effect"}, {}, q_lower)
            THEN "analysis"
        ELSE IF AnyIn({"summarize", "summary", "overview", "main", "highlights"},
                      {<<"key", "points">>}, q_lower)
            THEN "summary"
        ELSE IF AnyIn({"versus", "vs", "compare", "comparison", "difference"}, {}, q_lower)
            THEN "comparison"
        ELSE "general"

_classify_question(question) ==
    LET q_lower == LowerAll(question)
    IN  IF AnyIn({"calculate", "total", "revenue", "profit", "percentage"},
                 {<<"how", "many">>, <<"how", "much">>, <<"what", "is", "the">>,
                  <<"growth", "rate">>}, q_lower)
            THEN "data"
        ELSE IF AnyIn({"financial", "earnings", "ebitda", "margin", "valuation"},
                      {<<"balance", "sheet">>}, q_lower)
            THEN "financial"
        ELSE IF AnyIn({"analyze", "compare", "difference", "contrast", "why", "how",
                       "impact", "effect"}, {}, q_lower)
            THEN "analysis"
        ELSE IF AnyIn({"summarize", "summary", "overview", "main", "highlights"},
                      {<<"key", "points">>}, q_lower)
            THEN "summary"
        ELSE IF AnyIn({"versus", "vs", "compare", "comparison", "difference"}, {}, q_lower)
            THEN "comparison"
        ELSE "general"

-----------------------------------------------------------------------------
(* Source attribution                                                      *)
(*                                                                         *)
(* A context chunk is a search result: [metadata |-> [filename |-> f],     *)
(* score |-> hundredths, text |-> words]; a missing file name is "".       *)
(* A source is [filename |-> display name, relevance |-> hundredths].      *)

Chunk(filename, score, text) ==
    [metadata |-> [filename |-> filename], score |-> score, text |-> text]

Source(filename, relevance) == [filename |-> filename, relevance |-> relevance]

\* the value of a token made of digits, -1 for any other token
Number(t) ==
    CASE t = "2" -> 2
      [] t = "3" -> 3
      [] OTHER -> -1

\* the regular expression "documents?" at the start of a token
StartsDocument(t) == t \in {"document", "documents", "documents?"}

FirstOf(S) == CHOOSE i \in S : \A j \in S : i <= j

\* the multi-document patterns, tried in the order of the code; None is 0
requested_doc_count(question_lower) ==
    LET q == question_lower
        n == Len(q)
        tri(a, b) == \E i \in 1 .. n - 2 :
                        q[i] = a /\ q[i + 1] = b /\ StartsDocument(q[i + 2])
        bi(a) == \E i \in 1 .. n - 1 : q[i] = a /\ StartsDocument(q[i + 1])
        triN(a) == {i \in 1 .. n - 2 :
                        q[i] = a /\ Number(q[i + 1]) >= 0 /\ StartsDocument(q[i + 2])}
        biN == {i \in 1 .. n - 1 : Number(q[i]) >= 0 /\ StartsDocument(q[i + 1])}
    IN  IF tri("first", "two") THEN 2
        ELSE IF triN("first") # {} THEN Number(q[FirstOf(triN("first")) + 1])
        ELSE IF bi("two") THEN 2
        ELSE IF bi("both") THEN 2
        ELSE IF tri("all", "three") THEN 3
        ELSE IF triN("all") # {} THEN Number(q[FirstOf(triN("all")) + 1])
        ELSE IF biN # {} THEN Number(q[FirstOf(biN)])
        ELSE 0

\* min(0.95, 0.7 + score * 0.2), in hundredths
ChunkRelevance(score) == Min(95, 70 + (score * 20) \div 100)

IndexOfName(entries, name) ==
    LET S == {k \in 1 .. Len(entries) : entries[k].filename = name}
    IN  IF S = {} THEN 0 ELSE FirstOf(S)

\* doc_chunk_counts and doc_highest_scores: one entry per display name, in
\* the order of first appearance (the insertion order of the dicts)
RECURSIVE ChunkCounts(_, _, _)
ChunkCounts(context, i, entries) ==
    IF i > Len(context) THEN entries
    ELSE LET filename == context[i].metadata.filename
             normalized_name == normalize_document_name(filename)
             score == context[i].score
             k == IndexOfName(entries, normalized_name)
         IN  IF filename = "" THEN ChunkCounts(context, i + 1, entries)
             ELSE IF k = 0
                 THEN ChunkCounts(context, i + 1,
                        Append(entries, [filename |-> normalized_name, count |-> 1,
                                         highest |-> IF score > 0 THEN score ELSE 0]))
             ELSE ChunkCounts(context, i + 1,
                    [entries EXCEPT ![k] =
                        [@ EXCEPT !.count = @ + 1,
                                  !.highest = IF score > @ THEN score ELSE @]])

\* the tests that make a context file count as named by the answer; the file
\* names of the model have at most two parts, so the test on the last two of
\* three parts never applies
Mentions(answer_lower, filename) ==
    LET filename_lower == Lower(filename)
        normalized_lower == Lower(normalize_document_name(filename))
        filename_base == Base(filename_lower)
        normalized_base == Base(normalized_lower)
        filename_parts == Parts(filename_base)
        last_part == filename_parts[Len(filename_parts)]
    IN  \/ In(filename_lower, answer_lower)
        \/ In(normalized_lower, answer_lower)
        \/ In(filename_base, answer_lower)
        \/ In(normalized_base, answer_lower)
        \/ /\ Len(filename_parts) >= 2
           /\ LongerThan(last_part, 1)
           /\ In(last_part, answer_lower)

\* answer_doc_names from the context: (display name, lower-case file name)
RECURSIVE MentionedDocs(_, _, _)
MentionedDocs(answer_lower, context, i) ==
    IF i > Len(context) THEN <<>>
    ELSE LET filename == context[i].metadata.filename
             rest == MentionedDocs(answer_lower, context, i + 1)
         IN  IF filename # "" /\ Mentions(answer_lower, filename)
                 THEN <<[norm |-> normalize_document_name(filename),
                         orig |-> Lower(filename)]>> \o rest
                 ELSE rest

\* answer_doc_names from the candidate names, used when no file was named
RECURSIVE MentionedCandidates(_, _, _)
MentionedCandidates(answer_lower, candidate_sources, i) ==
    IF i > Len(candidate_sources) THEN <<>>
    ELSE LET candidate == candidate_sources[i]
             candidate_lower == Lower(candidate)
             candidate_base == Base(candidate_lower)
             rest == MentionedCandidates(answer_lower, candidate_sources, i + 1)
         IN  IF In(candidate_lower, answer_lower) \/ In(candidate_base, answer_lower)
                 THEN <<[norm |-> candidate, orig |-> candidate]>> \o rest
                 ELSE rest

AnswerDocNames(answer_lower, context, candidate_sources) ==
    LET fromContext == MentionedDocs(answer_lower, context, 1)
    IN  IF fromContext # <<>> THEN fromContext
        ELSE MentionedCandidates(answer_lower, candidate_sources, 1)

\* re.findall(r'\d+[\.\,]?\d*', token)
NumbersIn(t) ==
    CASE t = "22%" -> <<"22">>
      [] t = "2" -> <<"2">>
      [] t = "3" -> <<"3">>
      [] OTHER -> <<>>

RECURSIVE Numbers(_, _)
Numbers(answer, i) ==
    IF i > Len(answer) THEN <<>> ELSE NumbersIn(answer[i]) \o Numbers(answer, i + 1)

\* token.strip('.,!?;:()[]$%"\'')
StripPunctuation(t) ==
    CASE t = "22%" -> "22"
      [] t = "margin?" -> "margin"
      [] t = "notes.txt]" -> "notes.txt"
      [] t = "[Source:" -> "Source"
      [] t = "Source:" -> "Source"
      [] OTHER -> t

AttributionStopWords ==
    {"that", "this", "with", "from", "have", "been", "they", "what", "when", "where",
     "were", "about", "which", "there", "their", "them", "then", "than", "these",
     "those", "would", "could", "should", "might", "will", "shall"}

\* the answer terms; the answers of the model have fewer than twenty words
AnswerTerms(answer) ==
    {Lower(StripPunctuation(answer[i])) :
        i \in {j \in 1 .. Len(answer) :
                 /\ LongerThan(StripPunctuation(answer[j]), 3)
                 /\ Lower(answer[j]) \notin AttributionStopWords}}

\* a stable sort by the field key, highest first: sort(..., reverse=True)
RECURSIVE InsertByKey(_, _)
InsertByKey(sorted, x) ==
    IF sorted = <<>> THEN <<x>>
    ELSE IF Head(sorted).key >= x.key THEN <<Head(sorted)>> \o InsertByKey(Tail(sorted), x)
    ELSE <<x>> \o sorted

RECURSIVE SortByKey(_)
SortByKey(entries) ==
    IF entries = <<>> THEN <<>>
    ELSE InsertByKey(SortByKey(SubSeq(entries, 1, Len(entries) - 1)),
                     entries[Len(entries)])

\* source_scores, before the sort: one entry per file with a text and any
\* evidence; key is the score
RECURSIVE SourceScores(_, _, _, _, _, _)
SourceScores(answer, context, candidate_sources, answer_doc_names, i, seen_filenames) ==
    IF i > Len(context) THEN <<>>
    ELSE LET filename == context[i].metadata.filename
             normalized_name == normalize_document_name(filename)
             filename_lower == Lower(filename)
             answer_lower == LowerAll(answer)
             doc_text == LowerAll(context[i].text)
             numbers == Numbers(answer, 1)
             matching_numbers ==
                 Cardinality({k \in 1 .. Len(numbers) : In(numbers[k], doc_text)})
             matching_terms ==
                 Cardinality({t \in AnswerTerms(answer) : In(t, doc_text)})
             is_mentioned ==
                 \E k \in 1 .. Len(answer_doc_names) :
                     \/ answer_doc_names[k].norm = normalized_name
                     \/ Lower(answer_doc_names[k].orig) = filename_lower
             doc_score == context[i].score
             score ==
                 (IF \/ is_mentioned
                     \/ In(Lower(normalized_name), answer_lower)
                     \/ In(filename_lower, answer_lower) THEN 10 ELSE 0)
                 + 5 * matching_numbers
                 + matching_terms
                 + (IF \E k \in 1 .. Len(candidate_sources) :
                          candidate_sources[k] = normalized_name THEN 1 ELSE 0)
                 + (IF doc_score > 80 THEN 2 ELSE IF doc_score > 60 THEN 1 ELSE 0)
         IN  IF filename = "" \/ filename \in seen_filenames \/ doc_text = <<>>
                 THEN SourceScores(answer, context, candidate_sources, answer_doc_names,
                                   i + 1, seen_filenames)
             ELSE IF score > 0 \/ matching_terms > 0 \/ matching_numbers > 0
                 THEN <<[filename |-> normalized_name, key |-> score,
                         matching_numbers |-> matching_numbers,
                         matching_terms |-> matching_terms]>>
                      \o SourceScores(answer, context, candidate_sources, answer_doc_names,
                                      i + 1, seen_filenames \cup {filename})
             ELSE SourceScores(answer, context, candidate_sources, answer_doc_names,
                               i + 1, seen_filenames)

\* unique_mentioned: the first display name of every original name, in order
RECURSIVE UniqueMentioned(_, _, _)
UniqueMentioned(answer_doc_names, i, seen) ==
    IF i > Len(answer_doc_names) THEN <<>>
    ELSE IF answer_doc_names[i].orig \in seen
        THEN UniqueMentioned(answer_doc_names, i + 1, seen)
    ELSE <<answer_doc_names[i]>>
         \o UniqueMentioned(answer_doc_names, i + 1, seen \cup {answer_doc_names[i].orig})

\* the first context chunk of the file named orig_name, 0 if there is none
ChunkOf(context, orig_name) ==
    LET S == {k \in 1 .. Len(context) :
                 /\ context[k].metadata.filename # ""
                 /\ Lower(context[k].metadata.filename) = Lower(orig_name)}
    IN  IF S = {} THEN 0 ELSE FirstOf(S)

MatchingScore(context, orig_name) ==
    LET k == ChunkOf(context, orig_name)
    IN  IF k = 0 THEN 90 ELSE ChunkRelevance(context[k].score)

CountOf(entries, name) ==
    LET k == IndexOfName(entries, name) IN IF k = 0 THEN 0 ELSE entries[k].count

Prefix(seq, n) == SubSeq(seq, 1, Min(n, Len(seq)))

Sources(entries) ==
    [k \in 1 .. Len(entries) |-> Source(entries[k].filename, entries[k].relevance)]

\* the answer names context documents
MentionBranch(unique_mentioned, context, chunk_counts, requested) ==
    LET n == Len(unique_mentioned)
        chunks(orig_name) ==
            LET k == ChunkOf(context, orig_name)
            IN  IF k = 0 THEN 0
                ELSE CountOf(chunk_counts,
                             normalize_document_name(context[k].metadata.filename))
        all == [k \in 1 .. n |->
                   [filename |-> unique_mentioned[k].norm,
                    relevance |-> MatchingScore(context, unique_mentioned[k].orig),
                    key |-> chunks(unique_mentioned[k].orig) * 1000
                            + MatchingScore(context, unique_mentioned[k].orig)]]
        found == {k \in 1 .. Len(context) :
                     /\ context[k].metadata.filename # ""
                     /\ \E m \in 1 .. n :
                            unique_mentioned[m].orig = Lower(context[k].metadata.filename)}
        normOf(orig_name) ==
            unique_mentioned[FirstOf({m \in 1 .. n : unique_mentioned[m].orig = orig_name})].norm
    IN  IF n > 1
            THEN IF requested > 1 /\ requested < n
                     THEN Sources(Prefix(SortByKey(all), requested))
                     ELSE Sources(all)
        ELSE IF found # {}
            THEN <<Source(normOf(Lower(context[FirstOf(found)].metadata.filename)), 95)>>
        ELSE <<Source(unique_mentioned[1].norm, 90)>>

\* the chunk rule that keeps the order of chunk counts for a requested number
ChunkBranchByCount(chunk_counts, context, requested) ==
    LET sorted_docs ==
            SortByKey([k \in 1 .. Len(chunk_counts) |->
                          [filename |-> chunk_counts[k].filename,
                           relevance |-> ChunkRelevance(chunk_counts[k].highest),
                           key |-> chunk_counts[k].count * 1000 + chunk_counts[k].highest]])
    IN  IF requested > 1
            THEN Sources(Prefix(sorted_docs, requested))
            ELSE Sources(sorted_docs)

\* the chunk rule with the documents ranked by their highest score alone
ChunkBranchByScore(chunk_counts, context, requested) ==
    LET sorted_docs ==
            SortByKey([k \in 1 .. Len(chunk_counts) |->
                          [filename |-> chunk_counts[k].filename,
                           count |-> chunk_counts[k].count,
                           highest |-> chunk_counts[k].highest,
                           key |-> chunk_counts[k].highest]])
        context_order(name) ==
            FirstOf({k \in 1 .. Len(context) :
                        /\ context[k].metadata.filename # ""
                        /\ normalize_document_name(context[k].metadata.filename) = name})
        contributing_docs ==
            [k \in 1 .. Len(sorted_docs) |->
                [filename |-> sorted_docs[k].filename,
                 relevance |-> ChunkRelevance(sorted_docs[k].highest),
                 key |-> 0 - context_order(sorted_docs[k].filename)]]
    IN  IF requested > 1
            THEN Sources(Prefix(SortByKey(contributing_docs), requested))
            ELSE Sources(contributing_docs)

\* the answer names no document: the documents that provided chunks (every
\* counted document has at least one)
ChunkBranch(chunk_counts, context, requested) ==
    LET sorted_docs ==
            SortByKey([k \in 1 .. Len(chunk_counts) |->
                          [filename |-> chunk_counts[k].filename,
                           count |-> chunk_counts[k].count,
                           highest |-> chunk_counts[k].highest,
                           key |-> chunk_counts[k].count * 1000 + chunk_counts[k].highest]])
        context_order(name) ==
            FirstOf({k \in 1 .. Len(context) :
                        /\ context[k].metadata.filename # ""
                        /\ normalize_document_name(context[k].metadata.filename) = name})
        contributing_docs ==
            [k \in 1 .. Len(sorted_docs) |->
                [filename |-> sorted_docs[k].filename,
                 relevance |-> ChunkRelevance(sorted_docs[k].highest),
                 key |-> 0 - context_order(sorted_docs[k].filename)]]
    IN  IF requested > 1
            THEN Sources(Prefix(SortByKey(contributing_docs), requested))
            ELSE Sources(contributing_docs)

\* min(0.95, 0.7 + score / 30), in hundredths
ScoreRelevance(score) == Min(95, 70 + (score * 100) \div 30)

\* the scoring rules, for source_scores sorted by score
ScoreBranch(source_scores) ==
    LET sources_with_numbers == SelectSeq(source_scores, LAMBDA x : x.matching_numbers > 0)
        sources_with_terms == SelectSeq(source_scores, LAMBDA x : x.matching_terms >= 5)
        scored(entries) ==
            [k \in 1 .. Len(entries) |->
                Source(entries[k].filename, ScoreRelevance(entries[k].key))]
    IN  IF sources_with_numbers # <<>> THEN scored(sources_with_numbers)
        ELSE IF sources_with_terms # <<>> THEN scored(sources_with_terms)
        ELSE IF /\ Len(source_scores) >= 2
                /\ source_scores[1].key > 0
                /\ 10 * source_scores[2].key >= 7 * source_scores[1].key
            THEN <<Source(source_scores[1].filename, 75),
                   Source(source_scores[2].filename, 75)>>
        ELSE <<Source(source_scores[1].filename, 75)>>

\* the attribution that gives up where the code takes the first context chunk
LastResortNone(context) == <<>>

\* the last resort: the first context chunk, whatever its score
LastResort(context) ==
    <<Source(normalize_document_name(context[1].metadata.filename), 50)>>

\* the attribution that tries the scoring rules before the chunk counts
_extract_actual_sources_scores_first(answer, context, candidate_sources, question) ==
    IF Falsy(answer) \/ context = <<>> THEN <<>>
    ELSE
    LET answer_lower == LowerAll(answer.words)
        requested == requested_doc_count(LowerAll(question))
        chunk_counts == ChunkCounts(context, 1, <<>>)
        found_names == AnswerDocNames(answer_lower, context, candidate_sources)
        source_scores ==
            SortByKey(SourceScores(answer.words, context, candidate_sources,
                                   found_names, 1, {}))
        answer_doc_names == IF requested > 1 THEN <<>> ELSE found_names
    IN  IF answer_doc_names # <<>>
            THEN MentionBranch(UniqueMentioned(answer_doc_names, 1, {}), context,
                               chunk_counts, requested)
        ELSE IF source_scores # <<>>
            THEN ScoreBranch(source_scores)
        ELSE IF chunk_counts # <<>>
            THEN ChunkBranch(chunk_counts, context, requested)
        ELSE IF candidate_sources # <<>>
            THEN [k \in 1 .. Min(Len(candidate_sources), 3) |->
                     Source(candidate_sources[k], 70)]
        ELSE LastResort(context)

\* OrchestratorAgent._extract_actual_sources
_extract_actual_sources(answer, context, candidate_sources, question) ==
    IF Falsy(answer) \/ context = <<>> THEN <<>>
    ELSE
    LET answer_lower == LowerAll(answer.words)
        requested == requested_doc_count(LowerAll(question))
        chunk_counts == ChunkCounts(context, 1, <<>>)
        found_names == AnswerDocNames(answer_lower, context, candidate_sources)
        source_scores ==
            SortByKey(SourceScores(answer.words, context, candidate_sources,
                                   found_names, 1, {}))
        answer_doc_names == IF requested > 1 THEN <<>> ELSE found_names
    IN  IF answer_doc_names # <<>>
            THEN MentionBranch(UniqueMentioned(answer_doc_names, 1, {}), context,
                               chunk_counts, requested)
        ELSE IF chunk_counts # <<>>
            THEN ChunkBranch(chunk_counts, context, requested)
        ELSE IF source_scores # <<>>
            THEN ScoreBranch(source_scores)
        ELSE IF candidate_sources # <<>>
            THEN [k \in 1 .. Min(Len(candidate_sources), 3) |->
                     Source(candidate_sources[k], 70)]
        ELSE LastResort(context)

-----------------------------------------------------------------------------
(* The agents                                                              *)
(*                                                                         *)
(* What the language-model provider does at one call is an outcome: a      *)
(* completion with a text, a completion without content, an error, or a    *)
(* timeout of the client. A call of the code returns [raised, value].      *)

Completion(text) == [kind |-> "ok", text |-> text]

NoContent == [kind |-> "null", text |-> <<>>]

ProviderError == [kind |-> "error", text |-> <<>>]

\* an error of the provider whose message is "Incorrect API key"
ProviderRejectsKey == [kind |-> "error", text |-> <<"Incorrect", "API", "key">>]

ProviderTimeout == [kind |-> "timeout", text |-> <<>>]

Return(value) == [raised |-> FALSE, value |-> value]

\* an exception, with the words of str(e)
Raise(message) == [raised |-> TRUE, value |-> [message |-> message]]

\* BaseAgent.call_llm as it would be without its except clause
call_llm_unguarded(name, outcome) ==
    CASE outcome.kind = "ok" -> Return(Str(outcome.text))
      [] outcome.kind = "null" -> Return(NoneStr)
      [] OTHER -> Raise(<<"provider", outcome.kind>>)

\* BaseAgent.call_llm: the content of the completion; every exception becomes
\* a text
call_llm(name, outcome) ==
    CASE outcome.kind = "ok" -> Return(Str(outcome.text))
      [] outcome.kind = "null" -> Return(NoneStr)
      [] outcome.kind = "timeout" -> Return(Str(<<name, "request", "timed", "out.">>))
      [] OTHER -> Return(Str(<<"Error", "from", name>> \o outcome.text))

\* len(None) raises TypeError
LenRaises(s) == s.none

TypeErrorMessage == <<"NoneType">>

\* DocumentAgent.search_and_cite
search_and_cite(question, context, outcome) ==
    LET normalized_sources ==
            [i \in 1 .. Min(5, Len(context)) |->
                normalize_document_name(context[i].metadata.filename)]
        result == call_llm("DocumentAgent", outcome)
    IN  IF result.raised THEN result
        ELSE Return([agent |-> "DocumentAgent",
                     findings |-> result.value,
                     sources_checked |-> normalized_sources,
                     relevant_sources |-> Prefix(normalized_sources, 3)])

\* AnalysisAgent.analyze
analyze(question, document_findings, context, outcome) ==
    LET result == call_llm("AnalysisAgent", outcome)
    IN  IF result.raised THEN result
        ELSE IF LenRaises(result.value) THEN Raise(TypeErrorMessage)
        ELSE Return([agent |-> "AnalysisAgent",
                     analysis |-> result.value,
                     depth |-> "comprehensive"])

\* DataExtractionAgent.extract
extract(question, context, outcome) ==
    LET result == call_llm("DataExtractionAgent", outcome)
    IN  IF result.raised THEN result
        ELSE IF LenRaises(result.value) THEN Raise(TypeErrorMessage)
        ELSE Return([agent |-> "DataExtractionAgent",
                     extracted_data |-> result.value,
                     data_points_found |-> TRUE])

\* the confidence FactCheckAgent.verify reads from the verification text
Confidence(result_lower) ==
    IF In("accurate", result_lower) \/ In("correct", result_lower) THEN 95
    ELSE IF In("partially", result_lower) \/ In("some issues", result_lower) THEN 70
    ELSE IF In("inaccurate", result_lower) \/ In("incorrect", result_lower) THEN 40
    ELSE 85

\* FactCheckAgent.verify
verify(answer, question, context, outcome) ==
    LET result == call_llm("FactCheckAgent", outcome)
    IN  IF LenRaises(answer) THEN Raise(TypeErrorMessage)
        ELSE IF result.raised THEN result
        ELSE IF result.value.none THEN Raise(<<"AttributeError">>)
        ELSE Return([agent |-> "FactCheckAgent",
                     verification |-> result.value,
                     confidence |-> Confidence(LowerAll(result.value.words)),
                     verified |-> TRUE])

-----------------------------------------------------------------------------
(* The orchestrator's own steps                                            *)
(*                                                                         *)
(* A dict of agent outputs is a function from its keys; the order of the   *)
(* keys only shapes the synthesis prompt.                                  *)

EmptyDict == [k \in {} |-> 0]

\* d[key] = value
SetItem(d, key, value) == (key :> value) @@ d

\* a dispatch that sends the financial questions to the AnalysisAgent
ParallelTasksByMetrics(category) ==
    (IF category \in {"analysis", "summary", "comparison", "general", "financial"}
        THEN <<[agent_name |-> "AnalysisAgent", output_key |-> "analysis"]>>
        ELSE <<>>)
    \o
    (IF category \in {"data", "metrics"}
        THEN <<[agent_name |-> "DataExtractionAgent", output_key |-> "data"]>>
        ELSE <<>>)

\* a dispatch that sends the financial questions to both agents
ParallelTasksBoth(category) ==
    (IF category \in {"analysis", "summary", "comparison", "general", "financial"}
        THEN <<[agent_name |-> "AnalysisAgent", output_key |-> "analysis"]>>
        ELSE <<>>)
    \o
    (IF category \in {"data", "financial", "metrics"}
        THEN <<[agent_name |-> "DataExtractionAgent", output_key |-> "data"]>>
        ELSE <<>>)

\* the agents dispatched concurrently for a category, in dispatch order
ParallelTasks(category) ==
    (IF category \in {"analysis", "summary", "comparison", "general"}
        THEN <<[agent_name |-> "AnalysisAgent", output_key |-> "analysis"]>>
        ELSE <<>>)
    \o
    (IF category \in {"data", "financial", "metrics"}
        THEN <<[agent_name |-> "DataExtractionAgent", output_key |-> "data"]>>
        ELSE <<>>)

\* a failure recorded as if the agent had answered
ErrorResultAsAnswer(agent_name, message) ==
    IF agent_name = "DataExtractionAgent"
        THEN [agent |-> agent_name, extracted_data |-> Str(<<"Error:">> \o message),
              data_points_found |-> TRUE]
        ELSE [agent |-> agent_name, analysis |-> Str(<<"Error:">> \o message),
              depth |-> "comprehensive"]

\* the placeholder recorded for an agent whose future raised or timed out;
\* message is str(e)
ErrorResult(agent_name, message) ==
    IF agent_name = "DataExtractionAgent"
        THEN [agent |-> agent_name, error |-> Str(message),
              extracted_data |-> Str(<<"Error:">> \o message)]
        ELSE [agent |-> agent_name, error |-> Str(message),
              analysis |-> Str(<<"Error:">> \o message)]

FilterStopWords ==
    {"what", "is", "the", "are", "a", "an", "how", "many", "much", "does", "do",
     "did", "will", "can", "should", "could"}

\* token.strip('?,!')
StripQuestionMarks(t) ==
    CASE t = "margin?" -> "margin"
      [] OTHER -> t

KeyTerms(question_lower) ==
    LET kept == SelectSeq(question_lower,
                          LAMBDA w : LongerThan(w, 3) /\ w \notin FilterStopWords)
    IN  [i \in 1 .. Len(kept) |-> StripQuestionMarks(kept[i])]

\* the text of an agent output; "" if it has none of the three fields
Content(value) ==
    IF "findings" \in DOMAIN value THEN value.findings
    ELSE IF "analysis" \in DOMAIN value THEN value.analysis
    ELSE IF "extracted_data" \in DOMAIN value THEN value.extracted_data
    ELSE Str(<<>>)

\* the test without the skip of an output that has no text
KeepsWhateverContent(question, key, value) ==
    LET question_lower == LowerAll(question)
        key_terms == KeyTerms(question_lower)
        content_lower == LowerAll(Content(value).words)
        matches == Cardinality({i \in 1 .. Len(key_terms) :
                                   In(key_terms[i], content_lower)})
        boosted == /\ question_lower # <<>>
                   /\ question_lower[1] = "what"
                   /\ key = "data"
    IN  \/ boosted
        \/ 10 * matches > 4 * Max(Len(key_terms), 1)
        \/ key = "documents"

\* the test of _filter_relevant_info on one output; relevance > 0.4 is
\* 10 * matches > 4 * max(len(key_terms), 1)
Keeps(question, key, value) ==
    LET question_lower == LowerAll(question)
        key_terms == KeyTerms(question_lower)
        content == Content(value)
        content_lower == LowerAll(content.words)
        matches == Cardinality({i \in 1 .. Len(key_terms) :
                                   In(key_terms[i], content_lower)})
        boosted == /\ question_lower # <<>>
                   /\ question_lower[1] = "what"
                   /\ key = "data"
    IN  /\ ~Falsy(content)
        /\ \/ boosted
           \/ 10 * matches > 4 * Max(Len(key_terms), 1)
           \/ key = "documents"

\* the filter without its last resort
_filter_relevant_info_strict(question, outputs) ==
    LET kept == {key \in DOMAIN outputs : Keeps(question, key, outputs[key])}
    IN  [key \in kept |-> outputs[key]]

_filter_relevant_info(question, outputs) ==
    LET kept == {key \in DOMAIN outputs : Keeps(question, key, outputs[key])}
    IN  IF kept # {} THEN [key \in kept |-> outputs[key]] ELSE outputs

\* text[:500]; the texts of the model are shorter than 500 characters, and
\* slicing None raises TypeError
Slice500(text) == IF text.none THEN Raise(TypeErrorMessage) ELSE Return(text)

_simple_synthesis(outputs) ==
    LET textOf(value) ==
            IF "findings" \in DOMAIN value THEN value.findings
            ELSE IF "extracted_data" \in DOMAIN value THEN value.extracted_data
            ELSE value.analysis
    IN  IF "documents" \in DOMAIN outputs THEN Slice500(textOf(outputs["documents"]))
        ELSE IF "data" \in DOMAIN outputs THEN Slice500(textOf(outputs["data"]))
        ELSE IF "analysis" \in DOMAIN outputs THEN Slice500(textOf(outputs["analysis"]))
        ELSE Return(Str(<<"Unable", "to", "generate", "answer.">>))

_synthesize_answer(question, outputs, outcome) ==
    CASE outcome.kind = "ok" -> Return(Str(outcome.text))
      [] outcome.kind = "null" -> Return(NoneStr)
      [] OTHER -> _simple_synthesis(outputs)

OpensCitation(t) == Lower(t) \in {"[source:", "[document:", "[from:", "(source:"}

ClosesCitation(t) == t \in {"notes.txt]"}

\* re.sub of the bracketed citation patterns: from the opening token to the
\* first closing token, if there is one
RECURSIVE RemoveCitations(_, _)
RemoveCitations(words, i) ==
    IF i > Len(words) THEN <<>>
    ELSE LET closing == {j \in i .. Len(words) : ClosesCitation(words[j])}
         IN  IF OpensCitation(words[i]) /\ closing # {}
                 THEN RemoveCitations(words, FirstOf(closing) + 1)
                 ELSE <<words[i]>> \o RemoveCitations(words, i + 1)

\* re.sub of "Source: ..." up to the end of the line
RemoveSourceTail(words) ==
    LET at == {i \in 1 .. Len(words) - 1 : Lower(words[i]) = "source:"}
    IN  IF at = {} THEN words ELSE SubSeq(words, 1, FirstOf(at) - 1)

_clean_answer_text(answer) ==
    IF Falsy(answer) THEN answer
    ELSE Str(RemoveSourceTail(RemoveCitations(answer.words, 1)))

\* an orchestrate that returns the attributed sources as they are
ValidateSourcesDisabled(sources, context) == sources

\* the safety net of orchestrate on the attributed sources
ValidateSources(sources, context) ==
    IF sources = <<>> /\ context # <<>>
        THEN <<Source(normalize_document_name(context[1].metadata.filename), 50)>>
        ELSE sources

DefaultVerification ==
    [confidence |-> 75, verified |-> FALSE,
     verification |-> Str(<<"Fact-check", "could", "not", "be", "completed">>)]

-----------------------------------------------------------------------------
(* One request through OrchestratorAgent.orchestrate                       *)

Questions ==
    {<<"What", "is", "the", "EBITDA", "margin?">>,
     <<"Explain", "EBITDA", "margin">>,
     <<"Show", "me", "the", "risks">>,
     <<"Summarize", "the", "first", "two", "documents">>,
     <<"Acme", "versus", "Beta">>,
     <<"Describe", "Acme">>}

\* retrieved contexts, as search returns them: best score first
Contexts ==
    {<<Chunk("ebitda_report.pdf", 90, <<"ebitda", "margin", "22%">>),
       Chunk("employee_bios.txt", 30, <<"acme", "bios">>)>>,
     <<Chunk("ebitda_report.pdf", 90, <<"ebitda", "margin", "22%">>),
       Chunk("margin_notes.txt", 60, <<"margin", "risks">>),
       Chunk("employee_bios.txt", 30, <<"acme", "bios">>)>>,
     <<Chunk("notes.txt", 60, <<"acme", "risks">>),
       Chunk("notes.txt", 55, <<"beta">>)>>,
     <<Chunk("", 60, <<"acme">>)>>}

Failures == {NoContent, ProviderError, ProviderTimeout}

DocumentOutcomes ==
    {Completion(<<"EBITDA", "margin", "22%">>), Completion(<<>>)} \cup Failures

ParallelOutcomes ==
    {Completion(<<"margin", "is", "22%">>), Completion(<<"unrelated">>)} \cup Failures

SynthesisOutcomes ==
    {Completion(<<"EBITDA", "margin", "of", "22%">>),
     Completion(<<"per", "ebitda_report.pdf">>),
     Completion(<<"22%", "[Source:", "notes.txt]">>),
     Completion(<<>>)} \cup Failures

FactCheckOutcomes ==
    {Completion(<<"accurate">>), Completion(<<"inaccurate">>),
     Completion(<<"partially">>), Completion(<<"unclear">>), ProviderRejectsKey}
    \cup Failures

Sites == {"DocumentAgent", "AnalysisAgent", "DataExtractionAgent", "Synthesis",
          "FactCheckAgent"}

NoResult == [returned |-> FALSE]

NoVerification == [confidence |-> 0, verified |-> FALSE, verification |-> NoneStr]

Classify ==
    /\ pc = "classify"
    /\ question_type' = _classify_question(request_question)
    /\ pc' = "document"
    /\ UNCHANGED <<request_question, request_context, agents_used, agent_outputs, futures, collected,
                   filtered_outputs, final_answer, original_answer, actual_sources,
                   verification, response, provider, storeVars, attribution, chunking, cosine, qa_history>>

\* the DocumentAgent call; an exception of it is not caught by orchestrate
RunDocumentAgent ==
    /\ pc = "document"
    /\ \E outcome \in DocumentOutcomes :
         LET doc_result == search_and_cite(request_question, request_context, outcome)
         IN  /\ provider' = [provider EXCEPT !["DocumentAgent"] = outcome.kind]
             /\ IF doc_result.raised
                    THEN /\ pc' = "raised"
                         /\ UNCHANGED <<agents_used, agent_outputs>>
                    ELSE /\ agents_used' = Append(agents_used, "DocumentAgent")
                         /\ agent_outputs' =
                                SetItem(agent_outputs, "documents", doc_result.value)
                         /\ pc' = "dispatch"
    /\ UNCHANGED <<request_question, request_context, question_type, futures, collected,
                   filtered_outputs, final_answer, original_answer, actual_sources,
                   verification, response, storeVars, attribution, chunking, cosine, qa_history>>

\* the closure of run_analysis without the findings of the DocumentAgent
SubmitWithoutFindings(task, doc_result) ==
    [agent_name |-> task.agent_name, output_key |-> task.output_key,
     document_findings |-> NoneStr,
     state |-> "running", timed_out |-> FALSE, outcome |-> Return(EmptyDict)]

\* executor.submit(task): the pool has one worker per task, so the task starts
\* at once; run_analysis carries doc_result['findings']
Submit(task, doc_result) ==
    [agent_name |-> task.agent_name, output_key |-> task.output_key,
     document_findings |-> IF task.agent_name = "AnalysisAgent"
                           THEN doc_result.findings ELSE NoneStr,
     state |-> "running", timed_out |-> FALSE, outcome |-> Return(EmptyDict)]

\* the parallel tasks are built and submitted
Dispatch ==
    /\ pc = "dispatch"
    /\ LET parallel_tasks == ParallelTasks(question_type)
       IN  /\ futures' = [i \in 1 .. Len(parallel_tasks) |->
                             Submit(parallel_tasks[i], agent_outputs["documents"])]
           /\ pc' = IF parallel_tasks = <<>> THEN "filter" ELSE "collect"
    /\ UNCHANGED <<request_question, request_context, question_type, agents_used, agent_outputs,
                   collected, filtered_outputs, final_answer, original_answer,
                   actual_sources, verification, response, provider, storeVars,
                   attribution, chunking, cosine, qa_history>>

\* the agent call a future runs
RunTask(future, outcome) ==
    IF future.agent_name = "AnalysisAgent"
        THEN analyze(request_question, future.document_findings, request_context, outcome)
        ELSE extract(request_question, request_context, outcome)

\* a worker thread finishes its agent call
WorkerRun(i) ==
    /\ i \in 1 .. Len(futures)
    /\ futures[i].state = "running"
    /\ \E outcome \in ParallelOutcomes :
         LET r == RunTask(futures[i], outcome)
         IN  /\ futures' = [futures EXCEPT
                               ![i].state = IF r.raised THEN "raised" ELSE "returned",
                               ![i].outcome = r]
             /\ provider' = [provider EXCEPT ![futures[i].agent_name] = outcome.kind]
    /\ UNCHANGED <<request_question, request_context, pc, question_type, agents_used, agent_outputs,
                   collected, filtered_outputs, final_answer, original_answer,
                   actual_sources, verification, response, storeVars, attribution, chunking, cosine, qa_history>>

\* where the calling thread goes after future number i
AfterFuture(i) == IF i = Len(futures) THEN "exit_pool" ELSE "collect"

\* future.response(timeout=180) of the next future, which has finished: its dict
\* is recorded, or its exception is turned into the error placeholder
CollectResult ==
    /\ pc = "collect"
    /\ LET i == collected + 1
           future == futures[i]
       IN  /\ future.state # "running"
           /\ IF future.state = "returned"
                  THEN /\ agents_used' = Append(agents_used, future.agent_name)
                       /\ agent_outputs' =
                              SetItem(agent_outputs, future.output_key, future.outcome.value)
                  ELSE /\ agents_used' = agents_used
                       /\ agent_outputs' =
                              SetItem(agent_outputs, future.output_key,
                                      ErrorResult(future.agent_name,
                                                  future.outcome.value.message))
           /\ collected' = i
           /\ pc' = AfterFuture(i)
    /\ UNCHANGED <<request_question, request_context, question_type, futures, filtered_outputs,
                   final_answer, original_answer, actual_sources, verification,
                   response, provider, storeVars, attribution, chunking, cosine, qa_history>>

\* future.response(timeout=180) of the next future, which is still running after
\* 180 s: TimeoutError, whose str is empty; the future itself is left alone
CollectTimeout ==
    /\ pc = "collect"
    /\ LET i == collected + 1
           future == futures[i]
       IN  /\ future.state = "running"
           /\ futures' = [futures EXCEPT ![i].timed_out = TRUE]
           /\ agent_outputs' =
                  SetItem(agent_outputs, future.output_key,
                          ErrorResult(future.agent_name, <<>>))
           /\ collected' = i
           /\ pc' = AfterFuture(i)
    /\ UNCHANGED <<request_question, request_context, question_type, agents_used, filtered_outputs,
                   final_answer, original_answer, actual_sources, verification,
                   response, provider, storeVars, attribution, chunking, cosine, qa_history>>

\* every submitted call has finished
PoolIdle == \A i \in 1 .. Len(futures) : futures[i].state # "running"

\* the end of the with block: ThreadPoolExecutor.__exit__ is shutdown(wait=True)
PoolExit ==
    /\ pc = "exit_pool"
    /\ PoolIdle
    /\ pc' = "filter"
    /\ UNCHANGED <<request_question, request_context, question_type, agents_used, agent_outputs,
                   futures, collected, filtered_outputs, final_answer,
                   original_answer, actual_sources, verification, response, provider,
                   storeVars, attribution, chunking, cosine, qa_history>>

Filter ==
    /\ pc = "filter"
    /\ filtered_outputs' = _filter_relevant_info(request_question, agent_outputs)
    /\ pc' = "synthesize"
    /\ UNCHANGED <<request_question, request_context, question_type, agents_used, agent_outputs,
                   futures, collected, final_answer, original_answer, actual_sources,
                   verification, response, provider, storeVars, attribution, chunking, cosine, qa_history>>

\* synthesis; if it raises, the answer is the findings of the DocumentAgent
Synthesize ==
    /\ pc = "synthesize"
    /\ \E outcome \in SynthesisOutcomes :
         LET r == _synthesize_answer(request_question, filtered_outputs, outcome)
         IN  /\ final_answer' = IF r.raised THEN agent_outputs["documents"].findings
                                ELSE r.value
             /\ provider' = [provider EXCEPT !["Synthesis"] = outcome.kind]
    /\ pc' = "attribute"
    /\ UNCHANGED <<request_question, request_context, question_type, agents_used, agent_outputs,
                   futures, collected, filtered_outputs, original_answer,
                   actual_sources, verification, response, storeVars, attribution, chunking, cosine, qa_history>>

\* source attribution on the answer before cleaning, then the safety net;
\* len(original_answer) is taken outside any try
\* an orchestrate that strips the citations before it attributes
AttributeStripped ==
    /\ pc = "attribute"
    /\ original_answer' = final_answer
    /\ IF LenRaises(final_answer)
           THEN /\ pc' = "raised"
                /\ UNCHANGED actual_sources
           ELSE /\ actual_sources' =
                       ValidateSources(
                           _extract_actual_sources(_clean_answer_text(final_answer),
                               request_context,
                               agent_outputs["documents"].relevant_sources, request_question),
                           request_context)
                /\ pc' = "clean"
    /\ UNCHANGED <<request_question, request_context, question_type, agents_used, agent_outputs,
                   futures, collected, filtered_outputs, final_answer, verification,
                   response, provider, storeVars, attribution, chunking, cosine, qa_history>>

Attribute ==
    /\ pc = "attribute"
    /\ original_answer' = final_answer
    /\ IF LenRaises(final_answer)
           THEN /\ pc' = "raised"
                /\ UNCHANGED actual_sources
           ELSE /\ actual_sources' =
                       ValidateSources(
                           _extract_actual_sources(final_answer, request_context,
                               agent_outputs["documents"].relevant_sources, request_question),
                           request_context)
                /\ pc' = "clean"
    /\ UNCHANGED <<request_question, request_context, question_type, agents_used, agent_outputs,
                   futures, collected, filtered_outputs, final_answer, verification,
                   response, provider, storeVars, attribution, chunking, cosine, qa_history>>

Clean ==
    /\ pc = "clean"
    /\ final_answer' = _clean_answer_text(final_answer)
    /\ pc' = "fact_check"
    /\ UNCHANGED <<request_question, request_context, question_type, agents_used, agent_outputs,
                   futures, collected, filtered_outputs, original_answer,
                   actual_sources, verification, response, provider, storeVars,
                   attribution, chunking, cosine, qa_history>>

\* the fact check; if it raises, the default verification is used
FactCheck ==
    /\ pc = "fact_check"
    /\ \E outcome \in FactCheckOutcomes :
         LET r == verify(final_answer, request_question, request_context, outcome)
         IN  /\ verification' = IF r.raised THEN DefaultVerification ELSE r.value
             /\ provider' = [provider EXCEPT !["FactCheckAgent"] = outcome.kind]
    /\ agents_used' = Append(agents_used, "FactCheckAgent")
    /\ pc' = "return"
    /\ UNCHANGED <<request_question, request_context, question_type, agent_outputs, futures,
                   collected, filtered_outputs, final_answer, original_answer,
                   actual_sources, response, storeVars, attribution, chunking, cosine, qa_history>>

\* the span attributes (len(final_answer)) and the returned dict
ReturnResult ==
    /\ pc = "return"
    /\ IF LenRaises(final_answer)
           THEN /\ pc' = "raised"
                /\ UNCHANGED response
           ELSE /\ response' = [returned |-> TRUE,
                              question |-> request_question,
                              answer |-> final_answer,
                              sources |-> actual_sources,
                              confidence |-> verification.confidence,
                              agents_used |-> agents_used,
                              question_type |-> question_type,
                              verification_notes |-> verification.verification]
                /\ pc' = "returned"
    /\ UNCHANGED <<request_question, request_context, question_type, agents_used, agent_outputs,
                   futures, collected, filtered_outputs, final_answer,
                   original_answer, actual_sources, verification, provider,
                   storeVars, attribution, chunking, cosine, qa_history>>

-----------------------------------------------------------------------------
(* Direct calls of _extract_actual_sources                                 *)

NoCall == [called |-> FALSE]

Answers ==
    {Str(<<>>), Str(<<"EBITDA", "margin", "of", "22%">>),
     Str(<<"per", "ebitda_report.pdf">>),
     Str(<<"ebitda_report.pdf", "margin_notes.txt", "employee_bios.txt">>),
     Str(<<"EBITDA", "Analysis", "and", "notes">>),
     Str(<<"ebitda_report.pdf", "notes.txt", "employee_bios.txt">>)}

\* the contexts of a direct call: those of a request, no context at all, and
\* one whose last document provides two chunks
AttributionContexts ==
    Contexts \cup
    {<<>>,
     <<Chunk("ebitda_report.pdf", 90, <<"ebitda", "margin", "22%">>),
       Chunk("notes.txt", 60, <<"acme", "risks">>),
       Chunk("employee_bios.txt", 30, <<"acme", "bios">>),
       Chunk("employee_bios.txt", 25, <<"beta">>)>>}

CandidateLists == {<<>>, <<"EBITDA Analysis">>, <<"EBITDA Analysis", "Key Employee Bios">>}

CallExtract(answer, ctx, candidate_sources, q) ==
    /\ attribution = NoCall
    /\ attribution' = [called |-> TRUE, answer |-> answer, context |-> ctx,
                       candidate_sources |-> candidate_sources, question |-> q,
                       sources |-> _extract_actual_sources(answer, ctx,
                                                           candidate_sources, q)]
    /\ UNCHANGED <<storeVars, orchVars, chunking, cosine, qa_history>>

ReturnExtract ==
    /\ attribution # NoCall
    /\ attribution' = NoCall
    /\ UNCHANGED <<storeVars, orchVars, chunking, cosine, qa_history>>

-----------------------------------------------------------------------------
(* Direct calls of _classify_question                                      *)

MaxQuestionLen == 3

\* words with a keyword of each category, a word that holds a keyword inside
\* ("Show" holds "how"), the words of a keyword of several words, and a
\* word without any keyword
QuestionWords ==
    {"total", "EBITDA", "why", "Show", "summary", "versus", "What", "is", "the", "Acme"}

ClassifierQuestions ==
    Questions \cup
    UNION {[1 .. n -> QuestionWords] : n \in 0 .. MaxQuestionLen}

-----------------------------------------------------------------------------
(* Specifications                                                          *)

StoreEmpty ==
    /\ documents = <<>>
    /\ docOrder = <<>>
    /\ ret = Idle

NotStarted ==
    /\ question_type = ""
    /\ agents_used = <<>>
    /\ agent_outputs = EmptyDict
    /\ futures = <<>>
    /\ collected = 0
    /\ filtered_outputs = EmptyDict
    /\ final_answer = NoneStr
    /\ original_answer = NoneStr
    /\ actual_sources = <<>>
    /\ verification = NoVerification
    /\ response = NoResult
    /\ provider = [site \in Sites |-> "pending"]

NoRequest ==
    /\ request_question = <<>>
    /\ request_context = <<>>
    /\ pc = "idle"
    /\ NotStarted

\* the store after construction on an empty data directory
Init ==
    /\ StoreEmpty
    /\ NoRequest
    /\ attribution = NoCall
    /\ chunking = NoChunking
    /\ cosine = NoCosine
    /\ qa_history = NoHistory

Next ==
    \/ \E d \in DocIds, t \in Texts, p \in ProjectIds, ok \in SaveOutcomes :
          add_document(d, t, p, ok)
    \/ \E d \in DocIds, ok \in SaveOutcomes : delete_document(d, ok)
    \/ \E q \in Queries, l \in ListArguments, k \in 1 .. MaxTopK,
          p \in ProjectArguments, ok \in BOOLEAN : search(q, l, k, p, ok)
    \/ \E d \in DocIds : get_document(d)
    \/ \E p \in ProjectArguments : list_documents(p)
    \/ Respond


Spec == Init /\ [][Next]_vars

\* orchestrate is entered with a question and a non-empty context
InitOrchestrate ==
    /\ StoreEmpty
    /\ attribution = NoCall
    /\ chunking = NoChunking
    /\ cosine = NoCosine
    /\ qa_history = NoHistory
    /\ request_question \in Questions
    /\ request_context \in Contexts
    /\ pc = "classify"
    /\ NotStarted

NextOrchestrate ==
    \/ Classify
    \/ RunDocumentAgent
    \/ Dispatch
    \/ \E i \in 1 .. Len(futures) : WorkerRun(i)
    \/ CollectResult
    \/ CollectTimeout
    \/ PoolExit
    \/ Filter
    \/ Synthesize
    \/ Attribute
    \/ Clean
    \/ FactCheck
    \/ ReturnResult

SpecOrchestrate == InitOrchestrate /\ [][NextOrchestrate]_vars

\* the classification step of a request, for any question
InitClassifier ==
    /\ StoreEmpty
    /\ attribution = NoCall
    /\ chunking = NoChunking
    /\ cosine = NoCosine
    /\ qa_history = NoHistory
    /\ request_question \in ClassifierQuestions
    /\ request_context = <<>>
    /\ pc = "classify"
    /\ NotStarted

NextClassifier == Classify

SpecClassifier == InitClassifier /\ [][NextClassifier]_vars

\* _chunk_text is called with a text, a chunk_size > 0 and an overlap below it
InitChunking ==
    /\ StoreEmpty
    /\ NoRequest
    /\ attribution = NoCall
    /\ chunking = NoChunking
    /\ cosine = NoCosine
    /\ qa_history = NoHistory

NextChunking ==
    \/ \E text \in ChunkTexts, size \in 1 .. MaxChunkSize :
          \E overlap \in 0 .. size - 1 : CallChunkText(text, size, overlap)
    \/ IterateChunk
    \/ LeaveChunkLoop
    \/ ReturnChunks

SpecChunking == InitChunking /\ [][NextChunking]_vars

NextSimilarity ==
    \/ \E a \in Vectors, b \in Vectors : CallCosine(a, b)
    \/ ReturnCosine

SpecSimilarity == Init /\ [][NextSimilarity]_vars

\* the Q&A calls of a server that starts without a history file
NextQA ==
    \/ \E p \in ProjectIds \cup {""}, q \in QaIds, saved \in BOOLEAN :
          SaveAnswer(p, q, saved)
    \/ \E q \in QaIds, p \in ProjectIds \cup {""}, saved \in BOOLEAN :
          delete_qa(q, p, saved)
    \/ \E p \in ProjectIds, saved \in BOOLEAN : delete_project_qa(p, saved)

SpecQA == Init /\ [][NextQA]_vars

InitAttribution ==
    /\ StoreEmpty
    /\ NoRequest
    /\ attribution = NoCall
    /\ chunking = NoChunking
    /\ cosine = NoCosine
    /\ qa_history = NoHistory

NextAttribution ==
    \/ \E answer \in Answers, ctx \in AttributionContexts,
          candidate_sources \in CandidateLists, q \in Questions \cup {<<>>} :
          CallExtract(answer, ctx, candidate_sources, q)
    \/ ReturnExtract

SpecAttribution == InitAttribution /\ [][NextAttribution]_vars

-----------------------------------------------------------------------------
(* Properties of search                                                    *)

\* the chunks of the index as [doc_id, pos] pairs in input order: document
\* insertion order, then the order of the document's chunk list
RECURSIVE ChunkKeys(_, _)
ChunkKeys(docs, order) ==
    IF order = <<>> THEN <<>>
    ELSE [c \in 1 .. Len(docs[Head(order)].chunks) |-> [doc_id |-> Head(order), pos |-> c]]
         \o ChunkKeys(docs, Tail(order))

\* a document is in scope when it is of the requested project (if one is
\* requested) and in the allowlist (if one applies)
InScope(doc_id, project_id, listApplies, ids) ==
    /\ (project_id # None => documents[doc_id].metadata.project_id = project_id)
    /\ (listApplies => doc_id \in ids)

\* the keys of the chunks of the documents in scope, in input order
RECURSIVE SelectInScope(_, _, _, _)
SelectInScope(keys, project_id, listApplies, ids) ==
    IF keys = <<>> THEN <<>>
    ELSE (IF InScope(Head(keys).doc_id, project_id, listApplies, ids)
          THEN <<Head(keys)>> ELSE <<>>)
         \o SelectInScope(Tail(keys), project_id, listApplies, ids)

EligibleKeys(project_id, listApplies, ids) ==
    SelectInScope(ChunkKeys(documents, docOrder), project_id, listApplies, ids)

KeyScore(k, query_embedding) ==
    _cosine_similarity(query_embedding, documents[k.doc_id].chunks[k.pos].embedding)

\* the place of the i-th eligible chunk among the eligible ones: one more than
\* the number of chunks that score higher, or as much and come earlier
PlaceOf(keys, i, query_embedding) ==
    1 + Cardinality({j \in 1 .. Len(keys) :
            \/ KeyScore(keys[j], query_embedding) > KeyScore(keys[i], query_embedding)
            \/ /\ KeyScore(keys[j], query_embedding) = KeyScore(keys[i], query_embedding)
               /\ j < i})

\* the result search is to give for an eligible chunk placed at rank
ResultOf(k, query_embedding, rank) ==
    [text |-> documents[k.doc_id].chunks[k.pos].text,
     metadata |-> [project_id |-> documents[k.doc_id].metadata.project_id,
                   doc_id |-> k.doc_id,
                   chunk_index |-> documents[k.doc_id].chunks[k.pos].index],
     score |-> KeyScore(k, query_embedding),
     rank |-> rank]

\* C8: search returns its results in non-increasing order of score, the result
\* at position i carries rank i and is the i-th highest-scoring eligible chunk,
\* chunks of equal score in input order (document insertion order, then chunk
\* order).
C8_SearchOrdered ==
    ret.op = "search" =>
        LET keys == EligibleKeys(IF Truthy(ret.project_id) THEN ret.project_id ELSE None,
                                 TruthyList(ret.document_ids), ret.document_ids.ids)
            res == ret.value
        IN  /\ \A i, j \in 1 .. Len(res) : i < j => res[i].score >= res[j].score
            /\ \A i \in 1 .. Len(res) : res[i].rank = i
            /\ \A i \in 1 .. Len(keys) :
                  LET place == PlaceOf(keys, i, ret.query_embedding)
                  IN  place <= ret.top_k =>
                        /\ place <= Len(res)
                        /\ res[place] = ResultOf(keys[i], ret.query_embedding, place)

\* an unfiltered search over three chunks, cut to two by top_k: the two results
\* tie, come from two documents, and a chunk that scores less and lies first
\* in the index is left out
C8_Witness ==
    /\ ret.op = "search"
    /\ ~Truthy(ret.project_id)
    /\ ~TruthyList(ret.document_ids)
    /\ TotalChunks(documents, docOrder) = 3
    /\ Len(ret.value) = 2
    /\ ret.value[1].score = ret.value[2].score
    /\ ret.value[1].metadata.doc_id # ret.value[2].metadata.doc_id
    /\ documents[docOrder[1]].chunks # <<>>
    /\ _cosine_similarity(ret.query_embedding, documents[docOrder[1]].chunks[1].embedding)
          < ret.value[2].score

\* the number of chunks of the documents in scope
ScopeSize(project_id, listApplies, ids) == Len(EligibleKeys(project_id, listApplies, ids))

\* C9, as amended: every result of search comes from a document in scope: of
\* the requested project when one is requested, and in the allowlist when a
\* non-empty allowlist is given (an empty allowlist filters nothing, like an
\* absent one); search returns exactly min(top_k, number of chunks of the
\* documents in scope) results, none when nothing is in scope.
C9_SearchScoped ==
    ret.op = "search" =>
        LET project_id == IF Truthy(ret.project_id) THEN ret.project_id ELSE None
            listApplies == TruthyList(ret.document_ids)
            ids == ret.document_ids.ids
        IN  /\ \A i \in 1 .. Len(ret.value) :
                  /\ ret.value[i].metadata.doc_id \in DOMAIN documents
                  /\ InScope(ret.value[i].metadata.doc_id, project_id, listApplies, ids)
            /\ Len(ret.value) = Min(ret.top_k, ScopeSize(project_id, listApplies, ids))

\* a search with a project and a non-empty allowlist that left chunks of another
\* project and chunks of an unlisted document out
C9_Witness ==
    /\ ret.op = "search"
    /\ ret.project_id \in ProjectIds
    /\ ret.document_ids = SomeList({"d1"})
    /\ Len(ret.value) = 1
    /\ \E d \in DOMAIN documents :
          /\ d # "d1"
          /\ documents[d].metadata.project_id = ret.project_id
          /\ documents[d].chunks # <<>>

\* C9, as stated: the allowlist filters whenever one is given, the empty one
\* included.
C9_AsStated ==
    ret.op = "search" =>
        LET project_id == IF Truthy(ret.project_id) THEN ret.project_id ELSE None
            listApplies == ret.document_ids.given
            ids == ret.document_ids.ids
        IN  /\ \A i \in 1 .. Len(ret.value) :
                  InScope(ret.value[i].metadata.doc_id, project_id, listApplies, ids)
            /\ Len(ret.value) = Min(ret.top_k, ScopeSize(project_id, listApplies, ids))

-----------------------------------------------------------------------------
(* Properties of deletion                                                  *)

SearchArguments ==
    [query : Queries, document_ids : ListArguments, top_k : 1 .. MaxTopK,
     project_id : ProjectArguments, providerOk : BOOLEAN]

\* whether some search on the index docs returns a chunk of doc_id
SearchFinds(docs, order, doc_id) ==
    \E a \in SearchArguments :
        LET res == SearchResults(docs, order, _get_embedding(a.query, a.providerOk),
                                 a.document_ids, a.top_k, a.project_id)
        IN  \E i \in 1 .. Len(res) : res[i].metadata.doc_id = doc_id

ListFinds(docs, order, doc_id) ==
    \E p \in ProjectArguments :
        LET res == ListDocuments(docs, order, p)
        IN  \E i \in 1 .. Len(res) : res[i].id = doc_id

\* C10: delete_document removes a document with all its chunks in one step:
\* after it returns True no search, get_document or list_documents call
\* returns anything of the document, every other document is as it was, and
\* no state holds the document with part of its chunks; deleting an unknown
\* doc_id returns False and leaves the index unchanged.
C10_DeleteInOneStep ==
    [][\A d \in DocIds :
          (ret'.op = "delete_document" /\ ret'.doc_id = d) =>
              /\ ret'.value = "True" =>
                    /\ d \in DOMAIN documents
                    /\ d \notin DOMAIN documents'
                    /\ GetDocument(documents', d) = None
                    /\ ~ListFinds(documents', docOrder', d)
                    /\ ~SearchFinds(documents', docOrder', d)
                    /\ \A e \in DOMAIN documents \ {d} :
                          e \in DOMAIN documents' /\ documents'[e] = documents[e]
              /\ ret'.value = "False" =>
                    /\ d \notin DOMAIN documents
                    /\ UNCHANGED <<documents, docOrder>>
              /\ d \in DOMAIN documents' => documents'[d] = documents[d]
      ]_storeVars

\* a deletion that returned True while another document with chunks stays
C10_Witness ==
    /\ ret.op = "delete_document"
    /\ ret.value = "True"
    /\ \E e \in DOMAIN documents : Len(documents[e].chunks) = 2
-----------------------------------------------------------------------------
(* Properties of source attribution                                        *)

CalledWithContext == attribution.called /\ attribution.context # <<>>

\* C1, as amended: a call of _extract_actual_sources with a non-empty context
\* returns at least one source when the answer is not empty, and the empty
\* list when the answer is empty.
C1_NonEmptyForAnswer ==
    CalledWithContext =>
        IF Falsy(attribution.answer)
            THEN attribution.sources = <<>>
            ELSE attribution.sources # <<>>

\* the last resort is taken: no file name, no candidate, and a source all the same
C1_Witness ==
    /\ CalledWithContext
    /\ ~Falsy(attribution.answer)
    /\ attribution.candidate_sources = <<>>
    /\ attribution.sources = <<Source("", 50)>>

\* C1 as the claim states it: with a non-empty context the returned list has at
\* least one entry, whatever the answer, the empty answer included.
C1_AsStated == CalledWithContext => attribution.sources # <<>>

-----------------------------------------------------------------------------
(* Properties of orchestrate                                               *)

Finished == pc = "returned"

InList(seq, x) == \E k \in 1 .. Len(seq) : seq[k] = x

Attributed == pc \in {"clean", "fact_check", "return", "returned"}

\* what _extract_actual_sources gave for the request
Extracted ==
    _extract_actual_sources(original_answer, request_context,
                            agent_outputs["documents"].relevant_sources,
                            request_question)

FirstChunkSource ==
    <<Source(normalize_document_name(request_context[1].metadata.filename), 50)>>

\* C2: every result of orchestrate for a non-empty context has at least one
\* source, whatever the agents, synthesis and attribution gave; when attribution
\* gives nothing, the sources are exactly the first context chunk's display name
\* with relevance 0.50.
C2_SourcesNeverEmpty ==
    /\ Attributed => actual_sources # <<>>
    /\ Finished =>
          /\ response.sources # <<>>
          /\ Extracted = <<>> => response.sources = FirstChunkSource

\* attribution gave nothing (empty answer) and the request returned
C2_Witness ==
    /\ Finished
    /\ Extracted = <<>>
    /\ response.sources = FirstChunkSource

ProviderFailed(site) == provider[site] \in {"error", "timeout"}

\* the statements of orchestrate, in program order
Statements ==
    <<"classify", "document", "dispatch", "collect", "exit_pool", "filter",
      "synthesize", "attribute", "clean", "fact_check", "return", "returned", "raised">>

\* how far the request is: the statement reached, the futures handled, the
\* worker calls finished
Progress ==
    10 * FirstOf({k \in 1 .. Len(Statements) : Statements[k] = pc})
    + collected
    + Cardinality({i \in 1 .. Len(futures) : futures[i].state # "running"})

\* C3: whatever provider failures (error or timeout) hit the DocumentAgent,
\* the concurrent agent, synthesis and the fact check, orchestrate completes and
\* returns a result with answer, sources, confidence and agents_used: it raises
\* only after a completion without content, never after a provider failure; it
\* is never at a statement it cannot leave, and every step brings it closer to
\* the return.
C3_FailuresAreAbsorbed ==
    /\ [](pc = "raised" => \E site \in Sites : provider[site] = "null")
    /\ [](Finished =>
            /\ {"answer", "sources", "confidence", "agents_used"} \subseteq DOMAIN response
            /\ ~response.answer.none
            /\ response.agents_used # <<>>)
    /\ [](InList(Statements, pc) /\ (pc = "collect" => collected < Len(futures)))
    /\ [][Progress' > Progress]_vars

\* the provider failed at all four calls and the request returned
C3_Witness ==
    /\ Finished
    /\ ProviderFailed("DocumentAgent")
    /\ ProviderFailed("AnalysisAgent") \/ ProviderFailed("DataExtractionAgent")
    /\ ProviderFailed("Synthesis")
    /\ ProviderFailed("FactCheckAgent")

Handled(i) == i \in 1 .. Len(futures) /\ i <= collected

\* the future had raised or was still running when its result was asked for
FailedFuture(i) ==
    Handled(i) /\ (futures[i].timed_out \/ futures[i].state = "raised")

\* C4: when a concurrently dispatched agent raises or times out, the outputs
\* of the agents that answered stay in agent_outputs under their keys, the
\* failed agent is recorded as an error placeholder and is not in agents_used,
\* and filtering and synthesis run all the same.
C4_FailureIsIsolated ==
    \A i \in 1 .. Len(futures) :
        FailedFuture(i) =>
            /\ "error" \in DOMAIN agent_outputs[futures[i].output_key]
            /\ agent_outputs[futures[i].output_key].agent = futures[i].agent_name
            /\ ~InList(agents_used, futures[i].agent_name)
            /\ "documents" \in DOMAIN agent_outputs
            /\ "findings" \in DOMAIN agent_outputs["documents"]
            /\ InList(agents_used, "DocumentAgent")
            /\ \A j \in 1 .. Len(futures) :
                  (Handled(j) /\ ~FailedFuture(j)) =>
                      agent_outputs[futures[j].output_key] = futures[j].outcome.value
            /\ Attributed =>
                  /\ filtered_outputs # EmptyDict
                  /\ provider["Synthesis"] # "pending"

\* an agent timed out and the request returned
C4_Witness ==
    /\ Finished
    /\ \E i \in 1 .. Len(futures) : futures[i].timed_out

\* C5 as the claim states it: once the 180 s wait on an agent has timed out, the
\* calling thread goes on to filtering without waiting for the timed-out call.
C5_AsStated ==
    (pc = "exit_pool" /\ \E i \in 1 .. Len(futures) : futures[i].timed_out)
        => ENABLED PoolExit

Dispatched(agent_name) ==
    \E i \in 1 .. Len(futures) : futures[i].agent_name = agent_name

AfterDispatch == pc \notin {"classify", "document", "dispatch"}

C7_DocumentAgentFirst ==
    /\ (\E site \in {"AnalysisAgent", "DataExtractionAgent"} : provider[site] # "pending")
          => provider["DocumentAgent"] # "pending"
    /\ \A i \in 1 .. Len(futures) :
          /\ "documents" \in DOMAIN agent_outputs
          /\ agents_used # <<>>
          /\ agents_used[1] = "DocumentAgent"
          /\ futures[i].agent_name = "AnalysisAgent" =>
                futures[i].document_findings = agent_outputs["documents"].findings

\* the AnalysisAgent answered from findings the DocumentAgent gave
C7_Witness ==
    \E i \in 1 .. Len(futures) :
        /\ futures[i].agent_name = "AnalysisAgent"
        /\ futures[i].state = "returned"
        /\ ~Falsy(futures[i].document_findings)

-----------------------------------------------------------------------------
(* Properties of a requested number of documents                           *)

\* the question asks for the first two documents
AsksFirstTwo(q) ==
    \E i \in 1 .. Len(q) - 2 :
        /\ Lower(q[i]) = "first" /\ Lower(q[i + 1]) = "two"
        /\ Lower(q[i + 2]) \in {"document", "documents"}

\* the display names of the context documents the answer names by file name
NamedDocuments(answer, context) ==
    {normalize_document_name(context[k].metadata.filename) :
        k \in {j \in 1 .. Len(context) :
                  /\ context[j].metadata.filename # ""
                  /\ \E w \in 1 .. Len(answer.words) :
                         Lower(answer.words[w]) = Lower(context[j].metadata.filename)}}

\* the chunks of the context that belong to a display name
ChunksNamed(context, name) ==
    {k \in 1 .. Len(context) :
        /\ context[k].metadata.filename # ""
        /\ normalize_document_name(context[k].metadata.filename) = name}

BestScore(context, name) ==
    CHOOSE m \in {context[k].score : k \in ChunksNamed(context, name)} :
        \A k \in ChunksNamed(context, name) : context[k].score <= m

\* the display names of the context in the order of their first chunk
DisplayNames(context) ==
    {normalize_document_name(context[k].metadata.filename) :
        k \in {j \in 1 .. Len(context) : context[j].metadata.filename # ""}}

FirstChunk(context, name) == FirstOf(ChunksNamed(context, name))

\* name d comes before name e by chunk count, then by relevance
Outranks(context, d, e) ==
    \/ Cardinality(ChunksNamed(context, d)) > Cardinality(ChunksNamed(context, e))
    \/ /\ Cardinality(ChunksNamed(context, d)) = Cardinality(ChunksNamed(context, e))
       /\ BestScore(context, d) >= BestScore(context, e)

AskedForTwo ==
    /\ attribution.called
    /\ AsksFirstTwo(attribution.question)
    /\ ~Falsy(attribution.answer)

-----------------------------------------------------------------------------
(* Properties of the question classifier                                   *)

Categories == {"data", "financial", "analysis", "summary", "comparison", "general"}

\* the keyword lists in the order in which they are tested; a keyword is the
\* tuple of its words
KeywordLists ==
    <<[category |-> "data",
       keywords |-> {<<"how", "many">>, <<"how", "much">>, <<"what", "is", "the">>,
                     <<"calculate">>, <<"total">>, <<"revenue">>, <<"profit">>,
                     <<"growth", "rate">>, <<"percentage">>}],
      [category |-> "financial",
       keywords |-> {<<"financial">>, <<"earnings">>, <<"ebitda">>, <<"margin">>,
                     <<"valuation">>, <<"balance", "sheet">>}],
      [category |-> "analysis",
       keywords |-> {<<"analyze">>, <<"compare">>, <<"difference">>, <<"contrast">>,
                     <<"why">>, <<"how">>, <<"impact">>, <<"effect">>}],
      [category |-> "summary",
       keywords |-> {<<"summarize">>, <<"summary">>, <<"overview">>, <<"key", "points">>,
                     <<"main">>, <<"highlights">>}],
      [category |-> "comparison",
       keywords |-> {<<"versus">>, <<"vs">>, <<"compare">>, <<"comparison">>,
                     <<"difference">>}]>>

\* a keyword of list i occurs in the lower-cased question
Occurs(i, question) ==
    \E k \in KeywordLists[i].keywords : InPhrase(k, LowerAll(question))

Classified == pc = "document"

\* C12: the classifier gives every question one of the six categories: the
\* category of the first keyword list, in the order data, financial, analysis,
\* summary, comparison, of which a keyword occurs in the lower-cased question,
\* and general exactly when no keyword of any list occurs.
C12_FirstMatchingCategory ==
    Classified =>
        /\ question_type \in Categories
        /\ \A i \in 1 .. Len(KeywordLists) :
               question_type = KeywordLists[i].category
                   <=> /\ Occurs(i, request_question)
                       /\ \A j \in 1 .. i - 1 : ~Occurs(j, request_question)
        /\ question_type = "general"
               <=> \A i \in 1 .. Len(KeywordLists) : ~Occurs(i, request_question)

\* a question with a financial keyword before a data keyword is data
C12_Witness ==
    /\ Classified
    /\ request_question = <<"EBITDA", "total">>
    /\ question_type = "data"

\* C13, as the code has it: "What is the EBITDA margin?" is classified as
\* data, because it contains the data keyword "what is the", which is tested
\* before the financial keywords "ebitda" and "margin".
C13_MarginQuestionIsData ==
    (Classified /\ request_question = <<"What", "is", "the", "EBITDA", "margin?">>) =>
        question_type = "data"

C13_Witness ==
    /\ Classified
    /\ request_question = <<"What", "is", "the", "EBITDA", "margin?">>
    /\ question_type = "data"
    /\ Occurs(2, request_question)

\* C13 as stated: the question is classified as financial
C13_AsStated ==
    (Classified /\ request_question = <<"What", "is", "the", "EBITDA", "margin?">>) =>
        question_type = "financial"

-----------------------------------------------------------------------------
(* Properties of an answer that names no document                          *)

\* the context of the example: one chunk of ebitda_report.pdf with similarity
\* 0.9 and one of employee_bios.txt with similarity 0.3
MarginContext ==
    <<Chunk("ebitda_report.pdf", 90, <<"ebitda", "margin", "22%">>),
      Chunk("employee_bios.txt", 30, <<"acme", "bios">>)>>

MarginCall ==
    /\ attribution.called
    /\ attribution.context = MarginContext
    /\ attribution.answer = Str(<<"EBITDA", "margin", "of", "22%">>)

\* C14, as the code has it: for the context of ebitda_report.pdf (0.9) and
\* employee_bios.txt (0.3) and the answer "EBITDA margin of 22%", which names
\* neither file, attribution returns every document that provided a chunk:
\* "EBITDA Analysis" with relevance 0.88 and "Key Employee Bios" with
\* relevance 0.76, in that order, whatever the candidate names and question.
C14_AllContributingDocuments ==
    MarginCall =>
        attribution.sources
            = <<Source("EBITDA Analysis", 88), Source("Key Employee Bios", 76)>>

\* the call of the example with the candidate names of the DocumentAgent
C14_Witness ==
    /\ MarginCall
    /\ attribution.question = <<"What", "is", "the", "EBITDA", "margin?">>
    /\ attribution.candidate_sources = <<"EBITDA Analysis", "Key Employee Bios">>
    /\ NamedDocuments(attribution.answer, attribution.context) = {}
    /\ Len(attribution.sources) = 2

\* C14 as stated: a single source, "EBITDA Analysis", and no employee bios
C14_AsStated ==
    MarginCall =>
        /\ Len(attribution.sources) = 1
        /\ attribution.sources[1].filename = "EBITDA Analysis"
        /\ \A k \in 1 .. Len(attribution.sources) :
               attribution.sources[k].filename # "Key Employee Bios"

-----------------------------------------------------------------------------
(* Properties of the fact check                                            *)

\* the words of the verification text, lower-cased
VerificationText == LowerAll(verification.verification.words)

FactChecked == pc \in {"return", "returned"}

\* C15 as stated: when the language-model call of the fact check fails with a
\* provider error or a timeout, the returned result carries confidence 0.75.
C15_AsStated ==
    (Finished /\ ProviderFailed("FactCheckAgent")) => response.confidence = 75

\* C16 as stated: a verification text containing "accurate" or "correct"
\* gives 0.95, one containing "partially" or "some issues" gives 0.70, one
\* containing "inaccurate" or "incorrect" gives 0.40, any other text 0.85.
C16_AsStated ==
    (FactChecked /\ verification.verified) =>
        LET has(k) == In(k, VerificationText)
        IN  /\ (has("inaccurate") \/ has("incorrect")) => verification.confidence = 40
            /\ (has("partially") \/ has("some issues")) => verification.confidence = 70
            /\ ((has("accurate") \/ has("correct"))
                    /\ ~(has("inaccurate") \/ has("incorrect")))
                   => verification.confidence = 95
            /\ ~(has("accurate") \/ has("correct") \/ has("partially")
                    \/ has("some issues") \/ has("inaccurate") \/ has("incorrect"))
                   => verification.confidence = 85

-----------------------------------------------------------------------------
(* Properties of chunking                                                  *)

\* C20 as stated: for a non-empty text, chunk_size > 0 and 0 <= overlap <
\* chunk_size, every iteration of the loop of _chunk_text leaves the window
\* start strictly greater than it was, also when the end is snapped back to
\* just after a sentence terminator or newline.
C20_AsStated ==
    [][(/\ chunking.op = "_chunk_text"
        /\ chunking'.op = "_chunk_text"
        /\ chunking'.iterations > chunking.iterations)
          => chunking'.start > chunking.start]_vars

-----------------------------------------------------------------------------
(* Properties of a failing embedding provider                              *)

\* the answer to a search whose query embedding is the fallback vector: the
\* provider gives no zero vector, so the call to it failed
SearchWithoutEmbedding == ret.op = "search" /\ ret.query_embedding = ZeroVector

\* C17 as stated: a search whose query could not be embedded surfaces as
\* failed (search reports a failure as the empty list); it returns no
\* ranked chunks computed from a substitute query vector.
C17_AsStated == SearchWithoutEmbedding => ret.value = <<>>

\* the chunk records with the texts of chunks, in order, numbered from 0, each
\* with the embedding of its text or the zero vector
IngestedAs(records, chunks) ==
    /\ Len(records) = Len(chunks)
    /\ \A i \in 1 .. Len(chunks) :
           /\ records[i].text = chunks[i]
           /\ records[i].index = i - 1
           /\ records[i].embedding \in {Embed(chunks[i]), ZeroVector}

\* C18: whatever embedding calls fail during add_document, the call goes on:
\* every non-empty chunk of the text is appended to the document in order, a
\* chunk whose embedding failed with the zero vector, and the index is then
\* saved, so that the call raises only if saving does.
C18_IngestionSurvivesEmbeddingFailure ==
    [][\A d \in DocIds, t \in Texts, p \in ProjectIds, ok \in SaveOutcomes :
          (ret'.op = "add_document" /\ ret'.doc_id = d /\ add_document(d, t, p, ok)) =>
              LET chunks == _chunk_text(t, chunk_size, chunk_overlap)
                  before == IF d \in DOMAIN documents
                            THEN Len(documents[d].chunks) ELSE 0
                  after == documents'[d].chunks
              IN  /\ d \in DOMAIN documents'
                  /\ Len(after) = before + Len(chunks)
                  /\ IngestedAs(SubSeq(after, before + 1, Len(after)), chunks)
                  /\ \A i \in 1 .. Len(chunks) : chunks[i] # <<>>
                  /\ ret'.value = (IF ok THEN None ELSE "raise")]_vars

\* a document of two chunks, stored and saved, of which the first has the
\* zero vector and the second the vector of the provider
C18_Witness ==
    /\ ret.op = "add_document"
    /\ ret.value = None
    /\ LET stored == documents[ret.doc_id].chunks
       IN  /\ Len(stored) = 2
           /\ stored[1].embedding = ZeroVector
           /\ stored[2].embedding = Embed(stored[2].text)
           /\ stored[2].embedding # ZeroVector

\* C19 as stated: the chunks stored for each document carry the indices
\* 0, 1, ..., n-1 in order, also after add_document is called again with a
\* doc_id that is already in the index.
C19_AsStated ==
    \A d \in DOMAIN documents :
        \A i \in 1 .. Len(documents[d].chunks) : documents[d].chunks[i].index = i - 1

-----------------------------------------------------------------------------
(* Properties of the similarity                                            *)

Similarity == cosine.op = "_cosine_similarity"

\* C21: for all vectors a and b the similarity lies in [-1, 1], and it is
\* exactly 0 whenever a or b has zero norm: the division is not made then.
C21_SimilarityInRange ==
    Similarity =>
        /\ cosine.value \in -100 .. 100
        /\ (Dot(cosine.a, cosine.a) = 0 \/ Dot(cosine.b, cosine.b) = 0)
               => cosine.value = 0

\* the similarity of a zero vector, as a chunk whose embedding failed holds,
\* and a vector that is not zero
C21_Witness ==
    /\ Similarity
    /\ cosine.a = ZeroVector
    /\ cosine.b # ZeroVector
    /\ cosine.value = 0

-----------------------------------------------------------------------------
(* Properties of the relevance filter                                      *)

\* the outputs of the request have been filtered
Filtered == pc \in {"synthesize", "attribute", "clean", "fact_check", "return", "returned"}

\* the key terms of the question that occur in the text of an output
TermsFound(value) ==
    LET key_terms == KeyTerms(LowerAll(request_question))
    IN  {i \in 1 .. Len(key_terms) :
            In(key_terms[i], LowerAll(Content(value).words))}

\* relevance > 0.4, relevance being the terms found over max(len(key_terms), 1)
RelevanceAbove40(value) ==
    10 * Cardinality(TermsFound(value)) >
        4 * Max(Len(KeyTerms(LowerAll(request_question))), 1)

StartsWithWhat == request_question # <<>> /\ Lower(request_question[1]) = "what"

\* the output has a text, and it is relevant enough, or the DocumentAgent's,
\* or the DataExtractionAgent's for a question that starts with "what"
Passes(key) ==
    /\ ~Falsy(Content(agent_outputs[key]))
    /\ \/ RelevanceAbove40(agent_outputs[key])
       \/ key = "documents"
       \/ StartsWithWhat /\ key = "data"

C23_FilterNeverEmpties ==
    Filtered =>
        /\ DOMAIN filtered_outputs \subseteq DOMAIN agent_outputs
        /\ \A key \in DOMAIN filtered_outputs : filtered_outputs[key] = agent_outputs[key]
        /\ (\A key \in DOMAIN agent_outputs : ~Passes(key))
               => filtered_outputs = agent_outputs
        /\ DOMAIN agent_outputs # {} => DOMAIN filtered_outputs # {}

\* no output passes: the DocumentAgent found nothing and the analysis shares
\* no term with the question; both are handed to the synthesis
C23_Witness ==
    /\ Filtered
    /\ \A key \in DOMAIN agent_outputs : ~Passes(key)
    /\ DOMAIN agent_outputs = {"documents", "analysis"}
    /\ ~Falsy(agent_outputs["analysis"].analysis)
    /\ filtered_outputs = agent_outputs

-----------------------------------------------------------------------------
(* Properties of the synthesis                                             *)

\* the synthesis step has just been made, and its provider call raised
SynthesisFailed ==
    /\ pc = "attribute"
    /\ provider["Synthesis"] \in {"error", "timeout"}

\* the text of the first of the DocumentAgent's, the DataExtractionAgent's and
\* the AnalysisAgent's outputs that is among the filtered outputs
PreferredText ==
    IF "documents" \in DOMAIN filtered_outputs THEN filtered_outputs["documents"].findings
    ELSE IF "data" \in DOMAIN filtered_outputs THEN filtered_outputs["data"].extracted_data
    ELSE filtered_outputs["analysis"].analysis

\* C24 as stated: when the provider call of the synthesis fails, the answer is
\* the text preferred among the filtered outputs (DocumentAgent, then
\* DataExtractionAgent, then AnalysisAgent), and it is a text that is not
\* empty.
C24_AsStated ==
    SynthesisFailed =>
        /\ final_answer = PreferredText
        /\ ~Falsy(final_answer)

-----------------------------------------------------------------------------
(* Properties of the order of the stages                                   *)

\* the sources attributed to a text, with the safety net of orchestrate
SourcesOf(text) ==
    ValidateSources(
        _extract_actual_sources(text, request_context,
            agent_outputs["documents"].relevant_sources, request_question),
        request_context)

\* C25: the stages run in the order synthesis, attribution, citation
\* stripping, fact check; attribution is given the synthesized text as it is,
\* and the fact check and the returned answer have the stripped text.
C25_StageOrder ==
    [][/\ pc = "synthesize" => pc' = "attribute"
       /\ pc = "attribute" =>
              /\ pc' \in {"clean", "raised"}
              /\ final_answer' = final_answer
              /\ original_answer' = final_answer
              /\ pc' = "clean" => actual_sources' = SourcesOf(final_answer)
       /\ pc = "clean" =>
              /\ pc' = "fact_check"
              /\ final_answer' = _clean_answer_text(original_answer)
              /\ actual_sources' = actual_sources
       /\ pc = "fact_check" =>
              /\ pc' = "return"
              /\ final_answer = _clean_answer_text(original_answer)
              /\ final_answer' = final_answer
              /\ \E outcome \in FactCheckOutcomes :
                    LET r == verify(final_answer, request_question, request_context, outcome)
                    IN  verification' = IF r.raised THEN DefaultVerification ELSE r.value
       /\ pc = "return" =>
              /\ pc' \in {"returned", "raised"}
              /\ pc' = "returned" =>
                     /\ response'.answer = _clean_answer_text(original_answer)
                     /\ response'.sources = SourcesOf(original_answer)]_vars

\* a returned answer whose citation was stripped, with the one source that
\* only the citation names
C25_Witness ==
    /\ pc = "returned"
    /\ original_answer = Str(<<"22%", "[Source:", "notes.txt]">>)
    /\ response.answer = Str(<<"22%">>)
    /\ SourcesOf(response.answer) # response.sources

-----------------------------------------------------------------------------
(* Properties of the chunk rule of attribution                             *)

\* a call whose answer names no file of the context and whose question asks
\* for no number of documents, for a context with at least one named file
UnnamedCall ==
    /\ attribution.called
    /\ ~AsksFirstTwo(attribution.question)
    /\ DisplayNames(attribution.context) # {}
    /\ \A k \in 1 .. Len(attribution.context) :
           attribution.context[k].metadata.filename # ""
               => ~Mentions(LowerAll(attribution.answer.words),
                            attribution.context[k].metadata.filename)

\* one entry per display name of the context, a name with more chunks before
\* one with fewer, and among equal counts the higher best score first
AllContributing(sources, context) ==
    /\ Len(sources) = Cardinality(DisplayNames(context))
    /\ {sources[k].filename : k \in 1 .. Len(sources)} = DisplayNames(context)
    /\ \A k \in 1 .. Len(sources) - 1 :
           Outranks(context, sources[k].filename, sources[k + 1].filename)

\* C26 as stated: when the answer names no context document and the question
\* asks for no number of documents, attribution returns every document that
\* contributed a chunk, one entry per display name, ordered by chunk count and
\* then by highest score.
C26_AsStated ==
    UnnamedCall => AllContributing(attribution.sources, attribution.context)

\* C26: the same for an answer that is not empty.
C26_AllContributingInOrder ==
    (UnnamedCall /\ ~Falsy(attribution.answer))
        => AllContributing(attribution.sources, attribution.context)

\* three documents, the one with two chunks first although its scores are the
\* lowest, then the other two by score
C26_Witness ==
    /\ UnnamedCall
    /\ ~Falsy(attribution.answer)
    /\ Len(attribution.context) = 4
    /\ Len(attribution.sources) = 3
    /\ attribution.sources[1].filename = "Key Employee Bios"
    /\ attribution.sources[2].filename = "EBITDA Analysis"

-----------------------------------------------------------------------------
(* Properties of the dispatch                                              *)

\* the DocumentAgent has returned and the parallel tasks have been submitted
TasksSubmitted ==
    \/ pc \in {"collect", "exit_pool", "filter", "synthesize", "attribute", "clean",
               "fact_check", "return", "returned"}
    \/ pc = "raised" /\ "documents" \in DOMAIN agent_outputs

-----------------------------------------------------------------------------
(* Properties of the returned source list                                  *)

\* C28 as stated: the source list returned by attribution never has two
\* entries with the same filename, in any branch, also when several context
\* files have the same display name.
C28_AsStated ==
    attribution.called =>
        \A j, k \in 1 .. Len(attribution.sources) :
            attribution.sources[j].filename = attribution.sources[k].filename => j = k

-----------------------------------------------------------------------------
(* Properties of a failed add_document                                     *)

\* C29 as stated: an add_document that raises because the index could not be
\* saved leaves the index in memory as it was before the call.
C29_AsStated ==
    [][(ret'.op = "add_document" /\ ret'.value = "raise")
          => (documents' = documents /\ docOrder' = docOrder)]_vars

-----------------------------------------------------------------------------
(* Properties of the Q&A history                                           *)

\* the entries of every project carry the row numbers 1, 2, ..., n in order
RowsNumbered(history) ==
    \A p \in DOMAIN history :
        \A i \in 1 .. Len(history[p]) : history[p][i].row_number = i

\* no entry of the project has the id, or the project has no history
UnknownQa(qa_id, project_id) ==
    \/ project_id \notin DOMAIN qa_history
    \/ \A i \in 1 .. Len(qa_history[project_id]) : qa_history[project_id][i].id # qa_id

\* C30: after every answered question and every deletion the entries of
\* every project carry the row numbers 1, 2, ..., n in list order, and a
\* delete_qa for an id or a project that is not there returns False and
\* changes nothing.
C30_RowNumbersAreDense ==
    [][/\ RowsNumbered(qa_history) /\ RowsNumbered(qa_history')
       /\ (ret'.op = "delete_qa" /\ UnknownQa(ret'.qa_id, ret'.project_id)) =>
              /\ ret'.value = FALSE
              /\ ret'.raised = FALSE
              /\ qa_history' = qa_history]_vars

\* a deletion has left two entries behind, numbered 1 and 2
C30_Witness ==
    /\ ret.op = "delete_qa"
    /\ ret.value = TRUE
    /\ ret.project_id \in DOMAIN qa_history
    /\ Len(qa_history[ret.project_id]) = 2
    /\ qa_history[ret.project_id][2].row_number = 2

====
